---- MODULE Spec2Model ----
(***************************************************************************)
(* A model of the arpeggiator of cppMusicTools: the pattern interpreter    *)
(* (Arpeggiator::getNext), the sample-accurate scheduler                   *)
(* (Arpeggiator::processBlock), the transport synchronizer                 *)
(* (Arpeggiator::syncToPlayHead) and the chord model (MidiTools::Chord),   *)
(* as they stand in the latest iteration of src/Arpeggiator.h (the second  *)
(* class of the file, lines 449-1129) and of src/MidiTools.h (the second   *)
(* namespace of the file, lines 522-1299).                                 *)
(*                                                                         *)
(* Conventions.                                                            *)
(*  - A juce::String is a sequence of one-character strings; indices of    *)
(*    the source are 0-based, so pattern[pos] is pat[pos + 1] here.        *)
(*  - A C++ double is an exact rational [num, den] in lowest terms with    *)
(*    den > 0. Floating-point rounding is outside the model.               *)
(*  - A juce::MidiBuffer is a sequence of event records ordered by sample  *)
(*    position; an event of equal position is inserted after the ones      *)
(*    already there.                                                       *)
(*  - Every operation of the class is a pure operator from the object's    *)
(*    state (a record) to the new state and the returned buffer; the       *)
(*    actions apply these operators to the variable arp.                   *)
(*  - A call that enters a loop it can never leave sets hung; nothing is   *)
(*    delivered by that call and no later call can start.                  *)
(***************************************************************************)
EXTENDS Integers, Sequences, FiniteSets, TLC

VARIABLES
    arp,        \* the Arpeggiator object
    out,        \* the juce::MidiBuffer returned by the last call
    last,       \* the last call: its name, its arguments, its getNext invocations
    hung,       \* a call never returned
    sounding,   \* note-ons delivered so far and not yet matched by a note-off
    run,        \* the processBlock calls since the last other call, accumulated
    host        \* the host's transport: samples processed, getNext invocations

vars == <<arp, out, last, hung, sounding, run, host>>

----------------------------------------------------------------------------
(* Bounds of the model. *)

\* The longest block one processBlock call is asked for.
MaxBlock == 2
\* The number of samples processed in one behaviour.
MaxTotal == 4
\* The raw values the random source may deliver to one nextInt call.
MaxRand == 2

----------------------------------------------------------------------------
(* Exact rationals for the source's doubles. *)

Abs(x) == IF x < 0 THEN -x ELSE x

Min(x, y) == IF x < y THEN x ELSE y

Max(x, y) == IF x > y THEN x ELSE y

RECURSIVE Gcd(_, _)
Gcd(x, y) == IF y = 0 THEN x ELSE Gcd(y, x % y)

\* n / d in lowest terms, d # 0.
Rat(n, d) ==
    LET g == Gcd(Abs(n), Abs(d))
        s == IF d < 0 THEN -1 ELSE 1
    IN  [num |-> (s * n) \div g, den |-> (s * d) \div g]

RInt(n) == [num |-> n, den |-> 1]

RAdd(p, q) == Rat(p.num * q.den + q.num * p.den, p.den * q.den)

RSub(p, q) == Rat(p.num * q.den - q.num * p.den, p.den * q.den)

RMul(p, q) == Rat(p.num * q.num, p.den * q.den)

\* p / q, q # 0.
RDiv(p, q) == Rat(p.num * q.den, p.den * q.num)

RLe(p, q) == p.num * q.den <= q.num * p.den

RLt(p, q) == p.num * q.den < q.num * p.den

\* std::ceil and std::floor, as integers.
RCeil(p) == -((-p.num) \div p.den)

RFloor(p) == p.num \div p.den

\* The % of C++ on ints: the quotient is truncated towards zero.
CMod(x, y) == IF x >= 0 THEN x % y ELSE -((-x) % y)

----------------------------------------------------------------------------
(* MidiTools::Chord. *)

\* getNoteNameOffsetMap: the lower-cased root names and their pitch classes.
NoteNameOffsetMap ==
    [c |-> 0, bs |-> 0, cs |-> 1, db |-> 1, d |-> 2, ds |-> 3, eb |-> 3,
     e |-> 4, fb |-> 4, f |-> 5, es |-> 5, fs |-> 6, gb |-> 6, g |-> 7,
     gs |-> 8, ab |-> 8, a |-> 9, as |-> 10, bb |-> 10, b |-> 11, cb |-> 11]

AbsentDegrees == [i \in 1..7 |-> -1]

\* The suffixes the constructor tests, in its order, and the intervals each
\* puts into the slots 1, 2 and 3 (0-based) above the root; -1 leaves it absent.
SuffixIntervals ==
    [M7 |-> <<4, 7, 11>>, m7 |-> <<3, 7, 10>>, dom7 |-> <<4, 7, 10>>,
     five |-> <<-1, 7, -1>>, m |-> <<3, 7, -1>>, M |-> <<4, 7, -1>>,
     note |-> <<-1, -1, -1>>]

\* Chord::Chord(chordName), the name given as its lower-cased root (a key of
\* the note table with "s" for '#', or any other string) and its suffix.
ChordFromName(root, suffix) ==
    LET iv == SuffixIntervals[suffix]
        r  == NoteNameOffsetMap[root]
        slot(i) == IF iv[i] = -1 THEN -1 ELSE (r + iv[i]) % 12
    IN  [name     |-> <<root, suffix>>,
         degrees  |-> IF root \notin DOMAIN NoteNameOffsetMap
                         THEN AbsentDegrees
                         ELSE <<r, slot(1), slot(2), slot(3), -1, -1, -1>>,
         rawNotes |-> <<>>]

\* juce::String::trim, endsWith, dropLastCharacters and toLowerCase, on the
\* characters of a chord name.
RECURSIVE TrimStart(_)
TrimStart(s) == IF s # <<>> /\ Head(s) = " " THEN TrimStart(Tail(s)) ELSE s

RECURSIVE TrimEnd(_)
TrimEnd(s) ==
    IF s # <<>> /\ s[Len(s)] = " " THEN TrimEnd(SubSeq(s, 1, Len(s) - 1)) ELSE s

Trim(s) == TrimEnd(TrimStart(s))

EndsWith(s, suffix) ==
    /\ Len(s) >= Len(suffix)
    /\ SubSeq(s, Len(s) - Len(suffix) + 1, Len(s)) = suffix

DropLastCharacters(s, n) == SubSeq(s, 1, Len(s) - n)

LowerChar(c) ==
    CASE c = "A" -> "a" [] c = "B" -> "b" [] c = "C" -> "c" [] c = "D" -> "d"
      [] c = "E" -> "e" [] c = "F" -> "f" [] c = "G" -> "g" [] c = "H" -> "h"
      [] c = "M" -> "m" [] c = "X" -> "x" [] OTHER -> c

ToLowerCase(s) == [i \in 1..Len(s) |-> LowerChar(s[i])]

\* The key of NoteNameOffsetMap a lower-cased root string stands for, "?" for
\* a string that is no key of the table.
NoteKey(rootNoteStr) ==
    LET c == rootNoteStr[1]
        sharp == CASE c = "c" -> "cs" [] c = "d" -> "ds" [] c = "e" -> "es"
                   [] c = "f" -> "fs" [] c = "g" -> "gs" [] c = "a" -> "as"
                   [] c = "b" -> "bs" [] OTHER -> "?"
        flat  == CASE c = "c" -> "cb" [] c = "d" -> "db" [] c = "e" -> "eb"
                   [] c = "f" -> "fb" [] c = "g" -> "gb" [] c = "a" -> "ab"
                   [] c = "b" -> "bb" [] OTHER -> "?"
    IN  IF Len(rootNoteStr) = 1 THEN c
        ELSE IF Len(rootNoteStr) = 2 /\ rootNoteStr[2] = "#" THEN sharp
        ELSE IF Len(rootNoteStr) = 2 /\ rootNoteStr[2] = "b" THEN flat
        ELSE "?"

\* The suffix the constructor finds at the end of the trimmed name, by its
\* tests in their order, and the number of characters it drops for it.
SuffixOf(input) ==
    IF EndsWith(input, <<"M", "7">>) THEN "M7"
    ELSE IF EndsWith(input, <<"m", "7">>) THEN "m7"
    ELSE IF EndsWith(input, <<"7">>) THEN "dom7"
    ELSE IF EndsWith(input, <<"5">>) THEN "five"
    ELSE IF EndsWith(input, <<"m">>) THEN "m"
    ELSE IF EndsWith(input, <<"M">>) THEN "M"
    ELSE "note"

SuffixLength(suffix) ==
    IF suffix \in {"M7", "m7"} THEN 2 ELSE IF suffix = "note" THEN 0 ELSE 1

\* Chord::Chord with the name lower-cased before the suffix is looked for.
ChordLowerCasedFirst(chordName) ==
    LET input == ToLowerCase(Trim(chordName))
        suffix == SuffixOf(input)
        rootNoteStr == DropLastCharacters(input, SuffixLength(suffix))
    IN  IF input = <<>>
            THEN [name |-> chordName, degrees |-> AbsentDegrees, rawNotes |-> <<>>]
            ELSE [ChordFromName(NoteKey(rootNoteStr), suffix) EXCEPT !.name = chordName]

\* A constructor that takes C for a root it does not find in the note table.
ChordRootDefaultsToC(chordName) ==
    LET input == Trim(chordName)
        suffix == SuffixOf(input)
        rootNoteStr == ToLowerCase(DropLastCharacters(input, SuffixLength(suffix)))
        key == IF NoteKey(rootNoteStr) \in DOMAIN NoteNameOffsetMap
                  THEN NoteKey(rootNoteStr) ELSE "c"
    IN  [ChordFromName(key, suffix) EXCEPT !.name = chordName]

\* Chord::Chord(chordName), the name given as its characters.
Chord(chordName) ==
    LET input == Trim(chordName)
        suffix == SuffixOf(input)
        rootNoteStr == ToLowerCase(DropLastCharacters(input, SuffixLength(suffix)))
    IN  IF input = <<>>
            THEN [name |-> chordName, degrees |-> AbsentDegrees, rawNotes |-> <<>>]
            ELSE [ChordFromName(NoteKey(rootNoteStr), suffix) EXCEPT !.name = chordName]

\* The name "Custom", which the constructor would read as the root "custo"
\* and the suffix "m".
CustomName == <<"custo", "m">>

\* Chord::setNotesByArray: the raw notes, sorted; the degrees are kept.
SetNotesByArray(chord, notes) ==
    [chord EXCEPT !.name = CustomName,
                  !.rawNotes = SortSeq(notes, LAMBDA x, y : x < y)]

\* Chord::getDegree.
GetDegree(chord, degreeIndex) ==
    IF degreeIndex >= 0 /\ degreeIndex < Len(chord.degrees)
        THEN chord.degrees[degreeIndex + 1]
        ELSE -1

RECURSIVE SortedInsert(_, _)
SortedInsert(s, x) ==
    IF s = <<>> THEN <<x>>
    ELSE IF x = Head(s) THEN s
    ELSE IF x < Head(s) THEN <<x>> \o s
    ELSE <<Head(s)>> \o SortedInsert(Tail(s), x)

RECURSIVE SortedSetOf(_, _)
SortedSetOf(degrees, acc) ==
    IF degrees = <<>> THEN acc
    ELSE SortedSetOf(Tail(degrees),
                     IF Head(degrees) # -1 THEN SortedInsert(acc, Head(degrees))
                                           ELSE acc)

\* Chord::getSortedSet: the present degrees, ascending, without repetition.
GetSortedSet(chord) == SortedSetOf(chord.degrees, <<>>)

\* A setDegreesByArray that leaves every pitch class in 0..11.
SetDegreesUnraised(chord, notes) ==
    [chord EXCEPT
        !.name = CustomName,
        !.degrees = LET pitchClasses == SortedSetOf([i \in 1..Len(notes) |-> notes[i] % 12], <<>>)
                    IN  [i \in 1..7 |-> IF i <= Len(pitchClasses) THEN pitchClasses[i] ELSE -1]]

\* Chord::setDegreesByArray: the notes as semitones from the pitch class of
\* the lowest one, ascending and without repetition, in the first slots.
SetDegreesByArray(chord, notes) ==
    LET sortedNotes == SortSeq(notes, LAMBDA x, y : x < y)
        lowestNote == sortedNotes[1] % 12
        relative(note) == IF lowestNote > note % 12 THEN (note % 12) + 12
                                                    ELSE note % 12
        relativeSemitones ==
            SortedSetOf([i \in 1..Len(notes) |-> relative(notes[i])], <<>>)
    IN  [chord EXCEPT
            !.name = CustomName,
            !.degrees = [i \in 1..7 |->
                            IF notes # <<>> /\ i <= Len(relativeSemitones)
                                THEN relativeSemitones[i] ELSE -1]]

----------------------------------------------------------------------------
(* MidiTools::Scale. *)

\* The table scaleIntervals of Scale::buildScale.
ScaleIntervals ==
    [Major |-> <<0, 2, 4, 5, 7, 9, 11>>,
     Dorian |-> <<0, 2, 3, 5, 7, 9, 10>>,
     Phrygian |-> <<0, 1, 3, 5, 7, 8, 10>>,
     Lydian |-> <<0, 2, 4, 6, 7, 9, 11>>,
     Mixolydian |-> <<0, 2, 4, 5, 7, 9, 10>>,
     Aeolian |-> <<0, 2, 3, 5, 7, 8, 10>>,
     Locrian |-> <<0, 1, 3, 5, 6, 8, 10>>,
     MelodicMinor |-> <<0, 2, 3, 5, 7, 9, 11>>,
     Dorianb9 |-> <<0, 1, 3, 5, 7, 9, 10>>,
     LydianSharp5 |-> <<0, 2, 4, 6, 8, 9, 11>>,
     Lydianb7 |-> <<0, 2, 4, 6, 7, 9, 10>>,
     Mixolydianb13 |-> <<0, 2, 4, 5, 7, 8, 10>>,
     LocrianNatural9 |-> <<0, 2, 3, 5, 6, 8, 10>>,
     Altered |-> <<0, 1, 3, 4, 6, 8, 10>>,
     HarmonicMinor |-> <<0, 2, 3, 5, 7, 8, 11>>,
     LocrianNatural6 |-> <<0, 1, 3, 5, 6, 9, 10>>,
     IonianSharp5 |-> <<0, 2, 4, 5, 8, 9, 11>>,
     DorianSharp4 |-> <<0, 2, 3, 6, 7, 9, 10>>,
     PhrygianDominant |-> <<0, 1, 4, 5, 7, 8, 10>>,
     LydianSharp2 |-> <<0, 3, 4, 6, 7, 9, 11>>,
     Altered_bb7 |-> <<0, 1, 3, 4, 6, 8, 9>>,
     HarmonicMajor |-> <<0, 2, 4, 5, 7, 8, 11>>,
     DoubleHarmonicMajor |-> <<0, 1, 4, 5, 7, 8, 11>>,
     HungarianMinor |-> <<0, 2, 3, 6, 7, 8, 11>>,
     NeapolitanMajor |-> <<0, 1, 4, 5, 7, 9, 11>>,
     NeapolitanMinor |-> <<0, 1, 3, 5, 7, 8, 11>>,
     MajorPentatonic |-> <<0, 2, 4, 7, 9>>,
     MinorPentatonic |-> <<0, 3, 5, 7, 10>>,
     Blues |-> <<0, 3, 5, 6, 7, 10>>,
     WholeTone |-> <<0, 2, 4, 6, 8, 10>>,
     OctatonicHalfWhole |-> <<0, 1, 3, 4, 6, 7, 9, 10>>]

\* Scale::buildScale: the notes of the scale, as pitch classes.
BuildScale(rootSemitone, scaleType) ==
    [i \in 1..Len(ScaleIntervals[scaleType]) |->
        (rootSemitone + ScaleIntervals[scaleType][i]) % 12]

\* Scale::Scale(rootNoteNumber, scaleType).
Scale(rootNoteNumber, scaleType) == BuildScale(rootNoteNumber % 12, scaleType)

\* juce::Array::operator[]: the element, or 0 for an index outside the array.
ArrayAt(array, index) ==
    IF index >= 0 /\ index < Len(array) THEN array[index + 1] ELSE 0

\* The index the lambda getVoicedNote of Chord::fromScaleAndDegree reads.
VoicedIndex(degree, interval) == (degree + interval) % 7

\* The lambda getVoicedNote of Chord::fromScaleAndDegree.
GetVoicedNote(scaleNotes, degree, fundamental, interval) ==
    LET note == ArrayAt(scaleNotes, VoicedIndex(degree, interval))
    IN  IF note < fundamental THEN note + 12 ELSE note

\* Chord::fromScaleAndDegree; the chord "Diatonic" it starts from has a name
\* the constructor does not know, and seven absent degrees.
FromScaleAndDegree(scale, degreeArg, chordMode) ==
    LET newChord == [name |-> <<"Diatonic">>, degrees |-> AbsentDegrees, rawNotes |-> <<>>]
        scaleSize == Len(scale)
        degree == CMod(degreeArg, scaleSize)
        fundamental == ArrayAt(scale, (degree + 0) % scaleSize)
        inOrder(i) == LET noteInScale == ArrayAt(scale, (degree + i) % scaleSize)
                      IN  IF noteInScale < fundamental THEN noteInScale + 12
                                                       ELSE noteInScale
    IN  IF scale = <<>> THEN newChord
        ELSE IF chordMode
            THEN [newChord EXCEPT !.degrees =
                    <<fundamental,
                      GetVoicedNote(scale, degree, fundamental, 2),
                      GetVoicedNote(scale, degree, fundamental, 4),
                      GetVoicedNote(scale, degree, fundamental, 6),
                      GetVoicedNote(scale, degree, fundamental, 1),
                      GetVoicedNote(scale, degree, fundamental, 3),
                      GetVoicedNote(scale, degree, fundamental, 5)>>]
            ELSE [newChord EXCEPT !.degrees = [i \in 1..7 |-> inOrder(i - 1)]]


----------------------------------------------------------------------------
(* The pattern string. *)

DQuote == "\""

Digits == {"0", "1", "2", "3", "4", "5", "6", "7", "8", "9"}

\* juce::CharacterFunctions::isDigit and command - '0'.
IsDigit(c) == c \in Digits

DigitValue(c) ==
    CASE c = "0" -> 0 [] c = "1" -> 1 [] c = "2" -> 2 [] c = "3" -> 3
      [] c = "4" -> 4 [] c = "5" -> 5 [] c = "6" -> 6 [] c = "7" -> 7
      [] c = "8" -> 8 [] c = "9" -> 9

\* The characters numSteps and its two siblings skip with their argument,
\* skip alone, and count as a step.
IsArgPrefix(c) == c \in {"o", "O", "v", "V"}

IsPitchPrefix(c) == c \in {"#", "b"}

IsStepCommand(c) == IsDigit(c) \/ c \in {"+", "-", "?", DQuote, "=", ".", "_"}

\* The scan numSteps, getPatternIndexForStep and getStepForPatternIndex
\* share: the index after the command at index i.
ScanNext(pat, i) == IF IsArgPrefix(pat[i + 1]) THEN i + 2 ELSE i + 1

RECURSIVE CountSteps(_, _, _)
CountSteps(pat, i, limit) ==
    IF i < Len(pat) /\ i < limit
        THEN (IF IsStepCommand(pat[i + 1]) THEN 1 ELSE 0)
             + CountSteps(pat, ScanNext(pat, i), limit)
        ELSE 0

\* Arpeggiator::numSteps.
NumSteps(pat) == IF pat = <<>> THEN 0 ELSE CountSteps(pat, 0, Len(pat))

RECURSIVE FindStep(_, _, _, _)
FindStep(pat, i, currentStepCount, stepIndex) ==
    IF i < Len(pat)
        THEN IF currentStepCount = stepIndex
                THEN i
                ELSE FindStep(pat, ScanNext(pat, i),
                              IF IsStepCommand(pat[i + 1])
                                  THEN currentStepCount + 1
                                  ELSE currentStepCount,
                              stepIndex)
        ELSE 0

\* Arpeggiator::getPatternIndexForStep.
GetPatternIndexForStep(pat, stepIndex) ==
    IF pat = <<>> THEN 0 ELSE FindStep(pat, 0, 0, stepIndex)

\* Arpeggiator::getStepForPatternIndex.
GetStepForPatternIndex(pat, patternIndex) ==
    IF pat = <<>> \/ patternIndex < 0 THEN 0 ELSE CountSteps(pat, 0, patternIndex)

----------------------------------------------------------------------------
(* juce::MidiBuffer and juce::MidiMessage, as the class uses them. *)

\* MidiMessage::noteOff(channel, note) and noteOn(channel, note, velocity), at
\* sample position t; k is the ordinal of the getNext invocation, within the
\* call, that made the event (0 outside processBlock).
NoteOff(channel, note, t) ==
    [kind |-> "off", ch |-> channel, note |-> note, vel |-> 0, t |-> t, k |-> 0]

NoteOn(channel, note, velocity, t) ==
    [kind |-> "on", ch |-> channel, note |-> note, vel |-> velocity, t |-> t, k |-> 0]

\* MidiBuffer::addEvent: after the events whose position is not later.
RECURSIVE AddEvent(_, _)
AddEvent(buf, ev) ==
    IF buf = <<>> THEN <<ev>>
    ELSE IF Head(buf).t <= ev.t THEN <<Head(buf)>> \o AddEvent(Tail(buf), ev)
    ELSE <<ev>> \o buf

\* addEvents placing the events one sample after the offset it is given.
AddEventsOneLate(buf, source, sampleDelta, k) ==
    buf \o [i \in 1..Len(source) |->
               [source[i] EXCEPT !.t = @ + sampleDelta + 1, !.k = k]]

\* MidiBuffer::addEvents(source, 0, -1, sampleDelta), tagging the events with k.
RECURSIVE AddEvents(_, _, _, _)
AddEvents(buf, source, sampleDelta, k) ==
    IF source = <<>> THEN buf
    ELSE AddEvents(AddEvent(buf, [Head(source) EXCEPT !.t = @ + sampleDelta, !.k = k]),
                   Tail(source), sampleDelta, k)

\* juce::Random::nextInt(maxValue) for one raw value of the generator.
NextInt(raw, maxValue) == raw % maxValue

----------------------------------------------------------------------------
(* Arpeggiator::getNext. *)

IsPrefix(c) == c \in {"o", "O", "v", "V", "#", "b"}

\* pos = (pos + 1) % pattern.length().
Advance(pat, pos) == (pos + 1) % Len(pat)

\* One pass of the inner while (true) loop over a prefix command: the state
\* of the call after the command at s.arp.pos and its argument are consumed.
ConsumePrefix(s, command) ==
    LET a    == s.arp
        pat  == a.pattern
        step == GetStepForPatternIndex(pat, a.pos)
        pos1 == Advance(pat, a.pos)
        arg  == pat[pos1 + 1]
        pos2 == Advance(pat, pos1)
    IN  CASE command \in {"o", "O"} ->
               LET currentStepOctave ==
                       IF s.localOctave # -1 THEN s.localOctave ELSE a.octave
                   targetOctave ==
                       IF arg = "+" THEN Min(7, currentStepOctave + 1)
                       ELSE IF arg = "-" THEN Max(0, currentStepOctave - 1)
                       ELSE IF IsDigit(arg) THEN DigitValue(arg)
                       ELSE currentStepOctave
               IN  IF command = "o"
                       THEN [s EXCEPT !.arp.currentStepIndex = step, !.arp.pos = pos2,
                                      !.localOctave = targetOctave,
                                      !.consumed = @ + 2]
                       ELSE [s EXCEPT !.arp.currentStepIndex = step, !.arp.pos = pos2,
                                      !.arp.octave = targetOctave,
                                      !.consumed = @ + 2]
          [] command \in {"v", "V"} ->
               LET velocity == Min(127, DigitValue(arg) * 16)
               IN  IF ~IsDigit(arg)
                       THEN [s EXCEPT !.arp.currentStepIndex = step, !.arp.pos = pos2,
                                      !.consumed = @ + 2]
                   ELSE IF command = "v"
                       THEN [s EXCEPT !.arp.currentStepIndex = step, !.arp.pos = pos2,
                                      !.localVelocity = velocity,
                                      !.consumed = @ + 2]
                       ELSE [s EXCEPT !.arp.currentStepIndex = step, !.arp.pos = pos2,
                                      !.arp.globalVelocity = velocity,
                                      !.consumed = @ + 2]
          [] command = "#" ->
               [s EXCEPT !.arp.currentStepIndex = step, !.arp.pos = pos1,
                         !.semitoneOffset = 1, !.consumed = @ + 1]
          [] command = "b" ->
               [s EXCEPT !.arp.currentStepIndex = step, !.arp.pos = pos1,
                         !.semitoneOffset = -1, !.consumed = @ + 1]

\* The inner while (true) loop. The command it reads next depends on the
\* cursor alone, so the loop that comes back to a cursor it has already read a
\* prefix at never reaches its break: the call hangs.
RECURSIVE PrefixLoop(_, _)
PrefixLoop(s, visited) ==
    LET command == s.arp.pattern[s.arp.pos + 1]
    IN  IF ~IsPrefix(command) THEN s
        ELSE IF s.arp.pos \in visited THEN [s EXCEPT !.hangs = TRUE]
        ELSE PrefixLoop(ConsumePrefix(s, command), visited \cup {s.arp.pos})

\* Arpeggiator::getRandomPresentDegree, for the raw value the random source
\* delivers.
GetRandomPresentDegree(a, raw) ==
    IF a.chordMethod = 1
        THEN IF a.chord.rawNotes = <<>>
                THEN -1
                ELSE NextInt(raw, Len(a.chord.rawNotes))
        ELSE LET presentDegrees ==
                     SelectSeq([i \in 1..Len(a.chord.degrees) |-> i - 1],
                               LAMBDA i : a.chord.degrees[i + 1] # -1)
             IN  IF presentDegrees = <<>>
                     THEN -1
                     ELSE presentDegrees[NextInt(raw, Len(presentDegrees)) + 1]

\* The command after the prefixes: the rest of one pass of the outer loop.
NoteCommand(s, raw) ==
    LET a       == s.arp
        pat     == a.pattern
        command == pat[a.pos + 1]
        size    == Len(a.chord.degrees)
        t       == [s EXCEPT !.arp.currentStepIndex = GetStepForPatternIndex(pat, a.pos),
                             !.arp.pos = Advance(pat, a.pos),
                             !.consumed = @ + 1]
        found   == [t EXCEPT !.noteCommandFound = TRUE, !.cmdIndex = a.pos]
    IN  IF command = "_" THEN [found EXCEPT !.sustain = TRUE]
        ELSE IF IsDigit(command)
            THEN IF DigitValue(command) > 0
                    THEN [found EXCEPT !.currentDegreeIndex = DigitValue(command) - 1]
                    ELSE found
        ELSE IF command = "+"
            THEN [found EXCEPT !.currentDegreeIndex = (@ + 1) % size]
        ELSE IF command = "-"
            THEN [found EXCEPT !.currentDegreeIndex = (@ + size - 1) % size]
        ELSE IF command = "?"
            THEN [found EXCEPT !.currentDegreeIndex = GetRandomPresentDegree(a, raw)]
        ELSE IF command \in {"=", DQuote} THEN found
        ELSE IF command = "." THEN [found EXCEPT !.currentDegreeIndex = -1]
        ELSE t

\* for (int i = 0; i < pattern.length() * 2 && !noteCommandFound; ++i): the
\* pass i, then the passes after it, p being the state the prefix loop of
\* pass i has left.
RECURSIVE CommandLoop(_, _, _)
AfterPrefixes(p, i, raw) ==
    IF p.hangs THEN p ELSE CommandLoop(NoteCommand(p, raw), i + 1, raw)

CommandLoop(s, i, raw) ==
    IF i < Len(s.arp.pattern) * 2 /\ ~s.noteCommandFound
        THEN AfterPrefixes(PrefixLoop(s, {}), i, raw)
        ELSE s

\* getNoteForDegree with the searches of "Next" and "Previous" exchanged.
GetNoteForDegreeExchanged(a, degreeIndex) ==
    IF a.chordMethod = 1
        THEN IF a.chord.rawNotes = <<>>
                THEN -1
                ELSE a.chord.rawNotes[(degreeIndex % Len(a.chord.rawNotes)) + 1]
        ELSE LET size  == Len(a.chord.degrees)
                 index == IF degreeIndex >= 0 /\ degreeIndex < size
                              THEN degreeIndex ELSE degreeIndex % size
                 playedNotes == GetSortedSet(a.chord)
                 semitone == GetDegree(a.chord, index)
                 next == SelectSeq([i \in 1..(size - 1) |-> (index + i) % size],
                                   LAMBDA j : GetDegree(a.chord, j) # -1)
                 previous == SelectSeq([i \in 1..(size - 1) |-> (index + size - i) % size],
                                       LAMBDA j : GetDegree(a.chord, j) # -1)
             IN  IF size = 0 THEN -1
                 ELSE IF a.chord.name = CustomName /\ playedNotes # <<>>
                     THEN playedNotes[(index % Len(playedNotes)) + 1]
                 ELSE IF semitone # -1 THEN semitone
                 ELSE IF a.playNoteOff = "Off" THEN -1
                 ELSE IF a.playNoteOff = "Previous" /\ next # <<>>
                     THEN GetDegree(a.chord, Head(next))
                 ELSE IF a.playNoteOff = "Next" /\ previous # <<>>
                     THEN GetDegree(a.chord, Head(previous))
                 ELSE GetDegree(a.chord, 0)

\* Arpeggiator::getNoteForDegree.
GetNoteForDegree(a, degreeIndex) ==
    IF a.chordMethod = 1
        THEN IF a.chord.rawNotes = <<>>
                THEN -1
                ELSE a.chord.rawNotes[(degreeIndex % Len(a.chord.rawNotes)) + 1]
        ELSE LET size  == Len(a.chord.degrees)
                 index == IF degreeIndex >= 0 /\ degreeIndex < size
                              THEN degreeIndex ELSE degreeIndex % size
                 playedNotes == GetSortedSet(a.chord)
                 semitone == GetDegree(a.chord, index)
                 next == SelectSeq([i \in 1..(size - 1) |-> (index + i) % size],
                                   LAMBDA j : GetDegree(a.chord, j) # -1)
                 previous == SelectSeq([i \in 1..(size - 1) |-> (index + size - i) % size],
                                       LAMBDA j : GetDegree(a.chord, j) # -1)
             IN  IF size = 0 THEN -1
                 ELSE IF a.chord.name = CustomName /\ playedNotes # <<>>
                     THEN playedNotes[(index % Len(playedNotes)) + 1]
                 ELSE IF semitone # -1 THEN semitone
                 ELSE IF a.playNoteOff = "Off" THEN -1
                 ELSE IF a.playNoteOff = "Next" /\ next # <<>>
                     THEN GetDegree(a.chord, Head(next))
                 ELSE IF a.playNoteOff = "Previous" /\ previous # <<>>
                     THEN GetDegree(a.chord, Head(previous))
                 ELSE GetDegree(a.chord, 0)

\* The note-off of the previous note: the first part of what follows the loop.
TurnOffPrevious(a) ==
    IF a.lastPlayedMidiNote # -1
        THEN <<NoteOff(a.lastPlayedMidiChannel, a.lastPlayedMidiNote, 0)>>
        ELSE <<>>

\* The note the step sounds, -1 for none, before '#' and 'b' are applied.
NoteToPlay(s) ==
    LET a == s.arp
        finalNote == GetNoteForDegree(a, s.currentDegreeIndex)
        octaveToUse == IF s.localOctave # -1 THEN s.localOctave ELSE a.octave
        octaveOffset == octaveToUse - a.baseOctave
    IN  IF s.currentDegreeIndex = -1 THEN -1
        ELSE IF finalNote = -1 THEN -1
        ELSE IF a.chordMethod = 1 THEN finalNote + (octaveOffset * 12)
        ELSE finalNote + (octaveToUse * 12)

\* What follows the loop with its two addEvent calls exchanged.
EmitNoteOnFirst(s, midiChannel, noteToPlay) ==
    IF noteToPlay # -1
        THEN [arp    |-> [s.arp EXCEPT
                              !.lastPlayedMidiNote = noteToPlay + s.semitoneOffset,
                              !.lastPlayedMidiChannel = midiChannel,
                              !.lastPlayedDegreeIndex = s.currentDegreeIndex],
              events |-> <<NoteOn(midiChannel, noteToPlay + s.semitoneOffset,
                                  IF s.localVelocity # -1 THEN s.localVelocity
                                                          ELSE s.arp.globalVelocity, 0)>>
                         \o TurnOffPrevious(s.arp)]
        ELSE [arp    |-> [s.arp EXCEPT !.lastPlayedMidiNote = -1],
              events |-> TurnOffPrevious(s.arp)]

\* What follows the loop, the octave and velocity of the step kept as the
\* global ones.
EmitNoteKeepingLocal(s, midiChannel, noteToPlay) ==
    IF noteToPlay # -1
        THEN [arp    |-> [s.arp EXCEPT
                              !.lastPlayedMidiNote = noteToPlay + s.semitoneOffset,
                              !.lastPlayedMidiChannel = midiChannel,
                              !.lastPlayedDegreeIndex = s.currentDegreeIndex,
                              !.octave = IF s.localOctave # -1
                                             THEN s.localOctave ELSE @,
                              !.globalVelocity = IF s.localVelocity # -1
                                                     THEN s.localVelocity ELSE @],
              events |-> TurnOffPrevious(s.arp)
                         \o <<NoteOn(midiChannel, noteToPlay + s.semitoneOffset,
                                     IF s.localVelocity # -1 THEN s.localVelocity
                                                             ELSE s.arp.globalVelocity, 0)>>]
        ELSE [arp    |-> [s.arp EXCEPT !.lastPlayedMidiNote = -1],
              events |-> TurnOffPrevious(s.arp)]

\* What follows the loop, the note-off sent on the channel of the call in
\* place of the channel of the note it ends.
EmitNoteOffOnCallChannel(s, midiChannel, noteToPlay) ==
    LET a == s.arp
        noteOff == IF a.lastPlayedMidiNote # -1
                       THEN <<NoteOff(midiChannel, a.lastPlayedMidiNote, 0)>>
                       ELSE <<>>
        note == noteToPlay + s.semitoneOffset
        velocityToUse == IF s.localVelocity # -1 THEN s.localVelocity
                                                 ELSE a.globalVelocity
    IN  IF noteToPlay # -1
            THEN [arp    |-> [a EXCEPT !.lastPlayedMidiNote = note,
                                       !.lastPlayedMidiChannel = midiChannel,
                                       !.lastPlayedDegreeIndex = s.currentDegreeIndex],
                  events |-> noteOff \o <<NoteOn(midiChannel, note, velocityToUse, 0)>>]
            ELSE [arp    |-> [a EXCEPT !.lastPlayedMidiNote = -1],
                  events |-> noteOff]

\* What follows the loop: the note-off, the note-on of noteToPlay.
EmitNote(s, midiChannel, noteToPlay) ==
    LET a == s.arp
        noteOff == TurnOffPrevious(a)
        note == noteToPlay + s.semitoneOffset
        velocityToUse == IF s.localVelocity # -1 THEN s.localVelocity
                                                 ELSE a.globalVelocity
    IN  IF noteToPlay # -1
            THEN [arp    |-> [a EXCEPT !.lastPlayedMidiNote = note,
                                       !.lastPlayedMidiChannel = midiChannel,
                                       !.lastPlayedDegreeIndex = s.currentDegreeIndex],
                  events |-> noteOff \o <<NoteOn(midiChannel, note, velocityToUse, 0)>>]
            ELSE [arp    |-> [a EXCEPT !.lastPlayedMidiNote = -1],
                  events |-> noteOff]

\* What getNext hands back: the object after the call, the returned buffer,
\* whether the call hangs, the characters it consumed, whether it found a
\* note command and the index of that command (-1: none).
Returned(s, e) ==
    [arp |-> e.arp, events |-> e.events, hangs |-> s.hangs,
     consumed |-> s.consumed, found |-> s.noteCommandFound, cmdIndex |-> s.cmdIndex]

\* The call from the end of the loop on, without the early return of '_'.
AfterLoopNoSustain(s, midiChannel) ==
    IF s.hangs
        THEN Returned(s, [arp |-> s.arp, events |-> <<>>])
        ELSE Returned(s, EmitNote(s, midiChannel, NoteToPlay(s)))

\* The call from the end of the loop on, s being the state the loop has left.
AfterLoop(s, midiChannel) ==
    IF s.hangs \/ s.sustain
        THEN Returned(s, [arp |-> s.arp, events |-> <<>>])
        ELSE Returned(s, EmitNote(s, midiChannel, NoteToPlay(s)))

\* Arpeggiator::getNext(midiChannel), for the raw value the random source
\* delivers if the step asks for one.
GetNext(a, midiChannel, raw) ==
    IF a.pattern = <<>>
        THEN [arp |-> a, events |-> <<>>, hangs |-> FALSE, consumed |-> 0,
              found |-> FALSE, cmdIndex |-> -1]
        ELSE AfterLoop(CommandLoop(
                 [arp |-> a, currentDegreeIndex |-> a.lastPlayedDegreeIndex,
                  semitoneOffset |-> 0, localVelocity |-> -1, localOctave |-> -1,
                  noteCommandFound |-> FALSE, sustain |-> FALSE, hangs |-> FALSE,
                  consumed |-> 0, cmdIndex |-> -1], 0, raw), midiChannel)

----------------------------------------------------------------------------
(* The clock. *)

\* Arpeggiator::getNoteDivisor.
GetNoteDivisor(subdivision) ==
    CASE subdivision = 0 -> RInt(1)
      [] subdivision = 1 -> Rat(3, 2)
      [] subdivision = 2 -> RInt(2)
      [] subdivision = 3 -> RInt(3)
      [] subdivision = 4 -> RInt(4)
      [] subdivision = 5 -> RInt(6)
      [] subdivision = 6 -> RInt(8)
      [] subdivision = 7 -> RInt(12)
      [] subdivision = 8 -> RInt(16)
      [] subdivision = 9 -> RInt(24)
      [] OTHER -> RInt(4)

\* Arpeggiator::updateSamplesPerNote.
UpdateSamplesPerNote(a) ==
    IF RLt(RInt(0), a.sampleRate) /\ RLt(RInt(0), a.tempoBPM)
        THEN LET noteDivisor == GetNoteDivisor(a.subdivision)
                 quarterNoteDurationSeconds == RDiv(RInt(60), a.tempoBPM)
             IN  [a EXCEPT !.samplesPerNote =
                      RDiv(RMul(a.sampleRate, quarterNoteDurationSeconds), noteDivisor)]
        ELSE a

\* Arpeggiator::prepareToPlay, setTempo, setSubdivision.
PrepareToPlay(a, rate) == UpdateSamplesPerNote([a EXCEPT !.sampleRate = rate])

SetTempo(a, newTempoBPM) ==
    UpdateSamplesPerNote([a EXCEPT !.tempoBPM =
        IF RLt(RInt(0), newTempoBPM) THEN newTempoBPM ELSE RInt(120)])

SetSubdivision(a, subdivisionIndex) ==
    UpdateSamplesPerNote([a EXCEPT !.subdivision = subdivisionIndex])

\* Arpeggiator::ppqDuration.
PpqDuration(a) ==
    LET steps == NumSteps(a.pattern)
    IN  IF steps = 0 THEN RInt(0) ELSE RDiv(RInt(steps), GetNoteDivisor(a.subdivision))

----------------------------------------------------------------------------
(* Arpeggiator::processBlock. *)

\* The countdown set to one step, whatever was left of it.
ReplenishFromZero(samplesUntilNextNote, samplesPerNote) == samplesPerNote

\* while (samplesUntilNextNote <= 0.0) samplesUntilNextNote += samplesPerNote.
RECURSIVE Replenish(_, _)
Replenish(samplesUntilNextNote, samplesPerNote) ==
    IF RLe(samplesUntilNextNote, RInt(0))
        THEN Replenish(RAdd(samplesUntilNextNote, samplesPerNote), samplesPerNote)
        ELSE samplesUntilNextNote

\* The pass that fires again at the same offset until the countdown is
\* positive, in place of replenishing it after one getNext.
RECURSIVE FireStepCatchingUp(_, _, _, _)
FireStepCatchingUp(st, midiChannel, raw, time) ==
    LET g == GetNext(st.arp, midiChannel, raw)
        once == [arp    |-> [g.arp EXCEPT !.samplesUntilNextNote =
                                 RAdd(@, g.arp.samplesPerNote)],
                 events |-> AddEvents(st.events, g.events, time, Len(st.calls) + 1),
                 calls  |-> Append(st.calls, [t |-> time, consumed |-> g.consumed,
                                              found |-> g.found, cmdIndex |-> g.cmdIndex,
                                              pos |-> st.arp.pos,
                                              before |-> st.arp, after |-> g.arp]),
                 hangs  |-> g.hangs,
                 passes |-> st.passes]
    IN  IF g.hangs \/ RLt(RInt(0), once.arp.samplesUntilNextNote)
            THEN once
            ELSE FireStepCatchingUp(once, midiChannel, raw, time)

\* The part of one pass of the while (time < numSamples) loop that runs when
\* the countdown has run out: getNext, its events at the offset time, the
\* countdown replenished. st.calls lists the getNext invocations of the call,
\* each with the object before and after it, st.passes the value of time in
\* each completed pass of the loop.
Fired(st, g, time) ==
    [arp    |-> [g.arp EXCEPT !.samplesUntilNextNote =
                     Replenish(@, g.arp.samplesPerNote)],
     events |-> AddEvents(st.events, g.events, time, Len(st.calls) + 1),
     calls  |-> Append(st.calls, [t |-> time, consumed |-> g.consumed,
                                  found |-> g.found, cmdIndex |-> g.cmdIndex,
                                  pos |-> st.arp.pos,
                                  before |-> st.arp, after |-> g.arp]),
     hangs  |-> g.hangs,
     passes |-> st.passes]

FireStep(st, midiChannel, raw, time) ==
    Fired(st, GetNext(st.arp, midiChannel, raw), time)

\* The end of one pass: the samples to advance by.
SamplesThisStep(samplesUntilNextNote, numSamples, time) ==
    LET samplesToAdvance == RCeil(samplesUntilNextNote)
    IN  Min(numSamples - time, Max(1, samplesToAdvance))

\* The loop while (time < numSamples): one pass, then the passes after it.
RECURSIVE BlockLoop(_, _, _, _, _)
\* The countdown reduced by samplesToAdvance, the block's end notwithstanding.
AdvanceUnclamped(fired, numSamples, midiChannel, draws, time, samplesThisStep) ==
    BlockLoop([fired EXCEPT !.arp.samplesUntilNextNote =
                                 RSub(@, RInt(Max(1, RCeil(@)))),
                            !.passes = Append(@, time)],
              numSamples, midiChannel, draws, time + samplesThisStep)

AdvanceTime(fired, numSamples, midiChannel, draws, time, samplesThisStep) ==
    BlockLoop([fired EXCEPT !.arp.samplesUntilNextNote =
                                 RSub(@, RInt(samplesThisStep)),
                            !.passes = Append(@, time)],
              numSamples, midiChannel, draws, time + samplesThisStep)

AfterFire(fired, numSamples, midiChannel, draws, time) ==
    IF fired.hangs
        THEN fired
        ELSE AdvanceTime(fired, numSamples, midiChannel, draws, time,
                 SamplesThisStep(fired.arp.samplesUntilNextNote, numSamples, time))

BlockLoop(st, numSamples, midiChannel, draws, time) ==
    IF time < numSamples
        THEN AfterFire(IF RLe(st.arp.samplesUntilNextNote, RInt(0))
                           THEN FireStep(st, midiChannel,
                                         draws[Len(st.calls) + 1], time)
                           ELSE st,
                       numSamples, midiChannel, draws, time)
        ELSE st

\* processBlock without the test of the pattern in its guard.
ProcessBlockAnyPattern(a, numSamples, midiChannel, draws) ==
    LET st0 == [arp |-> a, events |-> <<>>, calls |-> <<>>, hangs |-> FALSE,
                passes |-> <<>>]
    IN  IF RLe(a.sampleRate, RInt(0)) \/ RLe(a.samplesPerNote, RInt(0))
            THEN st0
            ELSE BlockLoop(st0, numSamples,
                           IF midiChannel < 1 \/ midiChannel > 16 THEN 1
                                                                  ELSE midiChannel,
                           draws, 0)

\* if (midiChannel < 1 || midiChannel > 16) midiChannel = 1.
ChannelInUse(midiChannel) ==
    IF midiChannel < 1 \/ midiChannel > 16 THEN 1 ELSE midiChannel

\* Arpeggiator::processBlock(numSamples, midiChannel); draws[k] is the raw
\* value the random source delivers to the k-th getNext of the call.
ProcessBlock(a, numSamples, midiChannel, draws) ==
    LET st0 == [arp |-> a, events |-> <<>>, calls |-> <<>>, hangs |-> FALSE,
                passes |-> <<>>]
    IN  IF RLe(a.sampleRate, RInt(0)) \/ RLe(a.samplesPerNote, RInt(0))
           \/ a.pattern = <<>>
            THEN st0
            ELSE BlockLoop(st0, numSamples, ChannelInUse(midiChannel), draws, 0)

----------------------------------------------------------------------------
(* Arpeggiator::syncToPlayHead, reset, turnOff, setPattern. *)

\* syncToPlayHead adding the distance to the next step to the countdown in
\* place of assigning it.
SyncAccumulating(a, ppqPosition) ==
    LET stepDurationPPQ == RDiv(RInt(1), GetNoteDivisor(a.subdivision))
        songPosInSteps == RDiv(ppqPosition, stepDurationPPQ)
        stepsUntilNext == RSub(RInt(RCeil(songPosInSteps)), songPosInSteps)
    IN  IF RLe(a.samplesPerNote, RInt(0)) \/ RLt(ppqPosition, RInt(0))
           \/ a.pattern = <<>> \/ RLe(PpqDuration(a), RInt(0))
            THEN a
            ELSE [a EXCEPT !.samplesUntilNextNote =
                      RAdd(@, RMul(RMul(RMul(stepsUntilNext, stepDurationPPQ),
                                        RDiv(RInt(60), a.tempoBPM)), a.sampleRate))]

\* syncToPlayHead with the next step taken as floor(songPosInSteps) + 1.
SyncToStepAfter(a, ppqPosition) ==
    LET stepDurationPPQ == RDiv(RInt(1), GetNoteDivisor(a.subdivision))
        songPosInSteps == RDiv(ppqPosition, stepDurationPPQ)
        stepsUntilNext == RSub(RInt(RFloor(songPosInSteps) + 1), songPosInSteps)
    IN  IF RLe(a.samplesPerNote, RInt(0)) \/ RLt(ppqPosition, RInt(0))
           \/ a.pattern = <<>> \/ RLe(PpqDuration(a), RInt(0))
            THEN a
            ELSE [a EXCEPT !.samplesUntilNextNote =
                      RMul(RMul(RMul(stepsUntilNext, stepDurationPPQ),
                                RDiv(RInt(60), a.tempoBPM)), a.sampleRate)]

\* syncToPlayHead(positionInfo), for positionInfo.ppqPosition.
SyncToPlayHead(a, ppqPosition) ==
    LET patternDurationPPQ == PpqDuration(a)
        stepDurationPPQ == RDiv(RInt(1), GetNoteDivisor(a.subdivision))
        songPosInSteps == RDiv(ppqPosition, stepDurationPPQ)
        nextStepInSong == RInt(RCeil(songPosInSteps))
        stepsUntilNext == RSub(nextStepInSong, songPosInSteps)
        ppqUntilNext == RMul(stepsUntilNext, stepDurationPPQ)
        secondsPerPPQ == RDiv(RInt(60), a.tempoBPM)
    IN  IF RLe(a.samplesPerNote, RInt(0)) \/ RLt(ppqPosition, RInt(0))
           \/ a.pattern = <<>>
            THEN a
        ELSE IF RLe(patternDurationPPQ, RInt(0)) THEN a
        ELSE [a EXCEPT !.samplesUntilNextNote =
                  RMul(RMul(ppqUntilNext, secondsPerPPQ), a.sampleRate)]

\* reset(midiChannel, positionInfo): hasValue tells whether a position is given.
Reset(a, hasValue, ppqPosition) ==
    LET cleared == [a EXCEPT !.lastPlayedMidiNote = -1,
                             !.octave = a.baseOctave,
                             !.globalVelocity = 96,
                             !.pos = 0,
                             !.lastPlayedDegreeIndex = 0,
                             !.samplesUntilNextNote = RInt(0)]
        patternDurationPPQ == PpqDuration(a)
        stepDurationPPQ == RDiv(RInt(1), GetNoteDivisor(a.subdivision))
        songPosInSteps == RDiv(ppqPosition, stepDurationPPQ)
        patternDurationInSteps == RDiv(patternDurationPPQ, stepDurationPPQ)
        nextStepIndex == CMod(RFloor(songPosInSteps), RFloor(patternDurationInSteps))
    IN  [arp    |-> IF hasValue /\ RLt(RInt(0), patternDurationPPQ)
                        THEN [cleared EXCEPT !.pos =
                                  GetPatternIndexForStep(a.pattern, nextStepIndex)]
                        ELSE cleared,
         events |-> TurnOffPrevious(a)]

\* turnOff(midiChannel).
TurnOff(a) ==
    [arp    |-> [a EXCEPT !.lastPlayedMidiNote = -1,
                          !.pos = 0,
                          !.lastPlayedDegreeIndex = 0,
                          !.octave = a.baseOctave],
     events |-> TurnOffPrevious(a)]

\* A setPattern that leaves the cursor where it is.
SetPatternKeepingPos(a, newPattern) ==
    [a EXCEPT !.pattern = newPattern, !.octave = a.baseOctave]

\* setPattern(newPattern).
SetPattern(a, newPattern) ==
    [a EXCEPT !.pattern = newPattern, !.pos = 0, !.octave = a.baseOctave]

\* setChord(newChord).
SetChord(a, newChord) == [a EXCEPT !.chord = newChord]

\* setSamplesUntilNextNote(samples).
SetSamplesUntilNextNote(a, samples) == [a EXCEPT !.samplesUntilNextNote = samples]

\* Arpeggiator::Arpeggiator(initialChord, arpPattern, baseOctave): the
\* parameter baseOctave initializes octave; the member baseOctave keeps its
\* default. baseOctaveArg records the argument for the properties; no
\* operation reads or writes it.
NewArpeggiator(initialChord, arpPattern, baseOctaveArg) ==
    [chord |-> initialChord, pattern |-> arpPattern,
     baseOctave |-> 4, octave |-> baseOctaveArg, baseOctaveArg |-> baseOctaveArg,
     playNoteOff |-> "Next", chordMethod |-> 0, globalVelocity |-> 96,
     pos |-> 0, lastPlayedMidiNote |-> -1, lastPlayedMidiChannel |-> 1,
     lastPlayedDegreeIndex |-> 0, currentStepIndex |-> 0,
     sampleRate |-> RInt(0), tempoBPM |-> RInt(120), subdivision |-> 4,
     samplesPerNote |-> RInt(0), samplesUntilNextNote |-> RInt(0)]

\* setPlayNoteOffMode, setChordMethod.
SetPlayNoteOffMode(a, mode) == [a EXCEPT !.playNoteOff = mode]

SetChordMethod(a, methodIndex) == [a EXCEPT !.chordMethod = methodIndex]

----------------------------------------------------------------------------
(* What the actions record beside the object. *)

RECURSIVE RemoveFirst(_, _)
RemoveFirst(s, x) ==
    IF s = <<>> THEN <<>>
    ELSE IF Head(s) = x THEN Tail(s)
    ELSE <<Head(s)>> \o RemoveFirst(Tail(s), x)

\* The notes left sounding once the events of a returned buffer are played:
\* a note-on adds its channel and pitch, a note-off removes one note-on of its
\* channel and pitch.
RECURSIVE Deliver(_, _)
Deliver(snd, events) ==
    IF events = <<>> THEN snd
    ELSE LET e == Head(events)
             key == <<e.ch, e.note>>
         IN  Deliver(IF e.kind = "on" THEN Append(snd, key) ELSE RemoveFirst(snd, key),
                     Tail(events))

Zeros(n) == [i \in 1..n |-> 0]

HasRandom(pat) == \E i \in 1..Len(pat) : pat[i] = "?"

\* The raw values the random source may deliver during a block of n samples:
\* one per getNext, and they matter only to a pattern that holds '?'.
Draws(a, n) ==
    IF HasRandom(a.pattern) THEN [1..n -> 0..(MaxRand - 1)] ELSE {Zeros(n)}

\* The host position, in quarter notes, of sample h at the object's clock.
HostPpq(a, h) == RDiv(RMul(RInt(h), a.tempoBPM), RMul(RInt(60), a.sampleRate))

\* The positions a host may hand to syncToPlayHead: those of the samples of
\* the behaviour, and a negative one (the transport is not playing).
PpqInputs(a) ==
    IF RLt(RInt(0), a.sampleRate)
        THEN {HostPpq(a, h) : h \in 0..MaxTotal} \cup {RInt(-1)}
        ELSE {RInt(0), RInt(-1)}

NewRun(a, channel) ==
    [start |-> a, ch |-> channel, elapsed |-> 0, events |-> <<>>, fires |-> <<>>]

\* The last operation: its name, its position or other argument, the getNext
\* invocations and the loop passes of a processBlock call, and the fault of a
\* traversal that has left the bounds of the pattern.
NoCall ==
    [op |-> "none", ppq |-> RInt(0), arg |-> <<>>, calls |-> <<>>,
     passes |-> <<>>, fault |-> "none"]

----------------------------------------------------------------------------
(* The actions: one per public operation of the class. *)

\* processBlock(numSamples, midiChannel): the state after the call that has
\* computed r; base is the run the call extends.
Returns(numSamples, midiChannel, r, base) ==
    /\ arp' = r.arp
    /\ last' = [NoCall EXCEPT !.op = "processBlock", !.calls = r.calls,
                              !.passes = r.passes]
    /\ hung' = r.hangs
    /\ IF r.hangs
          THEN /\ out' = <<>>
               /\ UNCHANGED <<sounding, run, host>>
          ELSE /\ out' = r.events
               /\ sounding' = Deliver(sounding, r.events)
               /\ run' = [base EXCEPT
                     !.elapsed = @ + numSamples,
                     !.events = @ \o [i \in 1..Len(r.events) |->
                         [r.events[i] EXCEPT !.t = @ + base.elapsed,
                                             !.k = @ + Len(base.fires)]],
                     !.fires = @ \o [i \in 1..Len(r.calls) |->
                                        r.calls[i].t + base.elapsed]]
               /\ host' = [host EXCEPT
                     !.pos = @ + numSamples,
                     !.fires = @ \o [i \in 1..Len(r.calls) |->
                                        r.calls[i].t + host.pos],
                     !.ok = @ /\ host.armed,
                     !.armed = FALSE]

ProcessBlockStep(numSamples, midiChannel, draws) ==
    /\ ~hung
    /\ host.pos + numSamples <= MaxTotal
    /\ Returns(numSamples, midiChannel,
               ProcessBlock(arp, numSamples, midiChannel, draws),
               IF run.ch = ChannelInUse(midiChannel)
                   THEN run ELSE NewRun(arp, ChannelInUse(midiChannel)))

\* syncToPlayHead(positionInfo).
SyncStep(ppqPosition) ==
    /\ ~hung
    /\ arp' = SyncToPlayHead(arp, ppqPosition)
    /\ out' = <<>>
    /\ last' = [NoCall EXCEPT !.op = "syncToPlayHead", !.ppq = ppqPosition]
    /\ run' = NewRun(arp', run.ch)
    /\ host' = [host EXCEPT !.armed = RLt(RInt(0), arp.sampleRate)
                                      /\ ppqPosition = HostPpq(arp, host.pos)]
    /\ UNCHANGED <<hung, sounding>>

\* reset(midiChannel), without a host position.
ResetStep ==
    LET r == Reset(arp, FALSE, RInt(0))
    IN  /\ ~hung
        /\ arp' = r.arp
        /\ out' = r.events
        /\ last' = [NoCall EXCEPT !.op = "reset"]
        /\ sounding' = Deliver(sounding, r.events)
        /\ run' = NewRun(arp', run.ch)
        /\ host' = [host EXCEPT !.ok = FALSE, !.armed = FALSE]
        /\ UNCHANGED hung

\* reset(midiChannel, positionInfo), with the host position ppqPosition.
ResetAtStep(ppqPosition) ==
    LET r == Reset(arp, TRUE, ppqPosition)
    IN  /\ ~hung
        /\ arp' = r.arp
        /\ out' = r.events
        /\ last' = [NoCall EXCEPT !.op = "resetAt", !.ppq = ppqPosition]
        /\ sounding' = Deliver(sounding, r.events)
        /\ run' = NewRun(arp', run.ch)
        /\ host' = [host EXCEPT !.ok = FALSE, !.armed = FALSE]
        /\ UNCHANGED hung

\* turnOff(midiChannel).
TurnOffStep ==
    LET r == TurnOff(arp)
    IN  /\ ~hung
        /\ arp' = r.arp
        /\ out' = r.events
        /\ last' = [NoCall EXCEPT !.op = "turnOff"]
        /\ sounding' = Deliver(sounding, r.events)
        /\ run' = NewRun(arp', run.ch)
        /\ host' = [host EXCEPT !.ok = FALSE, !.armed = FALSE]
        /\ UNCHANGED hung

\* A setter that returns nothing: the object it leaves, its name and its
\* argument (a pattern, or a number in a sequence of one).
Sets(a, op, arg) ==
    /\ ~hung
    /\ arp' = a
    /\ out' = <<>>
    /\ last' = [NoCall EXCEPT !.op = op, !.arg = arg]
    /\ run' = NewRun(arp', run.ch)
    /\ host' = [host EXCEPT !.ok = FALSE, !.armed = FALSE]
    /\ UNCHANGED <<hung, sounding>>

\* prepareToPlay(rate).
PrepareStep(rate) == Sets(PrepareToPlay(arp, rate), "prepareToPlay", <<rate>>)

\* setTempo(newTempoBPM).
SetTempoStep(newTempoBPM) ==
    Sets(SetTempo(arp, newTempoBPM), "setTempo", <<newTempoBPM>>)

\* setPattern(newPattern).
SetPatternStep(newPattern) ==
    Sets(SetPattern(arp, newPattern), "setPattern", newPattern)

\* setSamplesUntilNextNote(samples).
SetSamplesStep(samples) ==
    Sets(SetSamplesUntilNextNote(arp, samples), "setSamplesUntilNextNote",
         <<samples>>)

\* What a raced getNext hands back: g with the fault of the traversal, the
\* call not returning if it stops, and setPattern finished after it if it was
\* not complete.
WithFault(g, fault, stops, complete, baseOctave) ==
    [arp |-> IF complete THEN g.arp
                         ELSE [g.arp EXCEPT !.pos = 0, !.octave = baseOctave],
     events |-> g.events, hangs |-> g.hangs \/ stops,
     consumed |-> g.consumed, found |-> g.found, cmdIndex |-> g.cmdIndex,
     fault |-> fault]

\* getNext(midiChannel) with setPattern(newPattern) run by another thread
\* during the call. point is where the call stands when the pattern is
\* assigned: "entered" (the test of line 527 passed, the loop condition of
\* line 542 not yet read) or "reading" (before the read of line 547).
\* complete tells whether setPattern has also reset pos and octave by then
\* (it does so after the call otherwise). A read of pattern[pos] with pos not
\* below the length, and pos modulo a length of zero, have no defined result:
\* the call traps (trap), or goes on with the character c as the one read.
RacedGetNext(a, midiChannel, newPattern, point, complete, trap, c) ==
    LET a1 == IF complete THEN SetPattern(a, newPattern)
                          ELSE [a EXCEPT !.pattern = newPattern]
        s0 == [arp |-> a1, currentDegreeIndex |-> a1.lastPlayedDegreeIndex,
               semitoneOffset |-> 0, localVelocity |-> -1, localOctave |-> -1,
               noteCommandFound |-> FALSE, sustain |-> FALSE, hangs |-> FALSE,
               consumed |-> 0, cmdIndex |-> -1]
        nothing == [arp |-> a1, events |-> <<>>, hangs |-> FALSE, consumed |-> 0,
                    found |-> FALSE, cmdIndex |-> -1]
        asRead == GetNext([a1 EXCEPT !.pattern = <<c>>, !.pos = 0], midiChannel, 0)
    IN  IF newPattern = <<>>
            THEN IF point = "entered"
                    THEN WithFault(AfterLoop(s0, midiChannel), "none", FALSE,
                                   complete, a.baseOctave)
                    ELSE WithFault(nothing, "modulo zero", trap,
                                   complete, a.baseOctave)
        ELSE IF a1.pos < Len(newPattern)
            THEN WithFault(GetNext(a1, midiChannel, 0), "none", FALSE,
                           complete, a.baseOctave)
        ELSE WithFault([asRead EXCEPT !.arp.pattern = newPattern,
                                      !.arp.pos = (a1.pos + 1) % Len(newPattern)],
                       "read past end", trap, complete, a.baseOctave)

\* The state after the raced call that has computed r.
RaceReturns(newPattern, fault, r) ==
    /\ arp' = r.arp
    /\ last' = [NoCall EXCEPT !.op = "race", !.arg = newPattern,
                              !.calls = r.calls, !.passes = r.passes,
                              !.fault = fault]
    /\ hung' = r.hangs
    /\ out' = IF r.hangs THEN <<>> ELSE r.events
    /\ sounding' = Deliver(sounding, out')
    /\ run' = NewRun(arp', run.ch)
    /\ host' = [host EXCEPT !.pos = @ + 1, !.ok = FALSE, !.armed = FALSE]

\* The block of one sample around the raced getNext that has returned g.
RaceFires(newPattern, g) ==
    RaceReturns(newPattern, g.fault,
                AfterFire(Fired([arp |-> arp, events |-> <<>>, calls |-> <<>>,
                                 hangs |-> FALSE, passes |-> <<>>], g, 0),
                          1, 1, <<0>>, 0))

\* processBlock(1, 1) whose getNext is raced by setPattern(newPattern).
RaceStep(newPattern, point, complete, trap, c) ==
    /\ ~hung
    /\ host.pos + 1 <= MaxTotal
    /\ RLt(RInt(0), arp.sampleRate) /\ RLt(RInt(0), arp.samplesPerNote)
    /\ arp.pattern # <<>>
    /\ RLe(arp.samplesUntilNextNote, RInt(0))
    /\ RaceFires(newPattern,
                 RacedGetNext(arp, 1, newPattern, point, complete, trap, c))

\* setChord(Chord(chordName)), before the first block.
SetChordStep(chordName) ==
    /\ host.pos = 0
    /\ Sets(SetChord(arp, Chord(chordName)), "setChord", chordName)

\* chord.setDegreesByArray(notes) and setChord(chord), before the first block.
SetDegreesStep(notes) ==
    /\ host.pos = 0
    /\ Sets(SetChord(arp, SetDegreesByArray(arp.chord, notes)), "setDegreesByArray", notes)

\* chord.setNotesByArray(notes) and setChord(chord), before the first block.
SetNotesStep(notes) ==
    /\ host.pos = 0
    /\ Sets(SetChord(arp, SetNotesByArray(arp.chord, notes)), "setNotesByArray", notes)

\* setChord(Chord::fromScaleAndDegree(Scale(root, scaleType), degree,
\* chordMode)), before the first block.
FromScaleStep(root, scaleType, degree, chordMode) ==
    /\ host.pos = 0
    /\ Sets(SetChord(arp, FromScaleAndDegree(Scale(root, scaleType), degree, chordMode)),
            "fromScaleAndDegree",
            [root |-> root, scaleType |-> scaleType, degree |-> degree, chordMode |-> chordMode])


----------------------------------------------------------------------------
(* The objects the behaviours start from. *)

\* An object constructed and then configured by its setters.
Configured(chord, method, mode, pattern, baseOctaveArg, rate, tempo, subdivision) ==
    SetSubdivision(
        SetTempo(
            PrepareToPlay(
                SetPlayNoteOffMode(
                    SetChordMethod(NewArpeggiator(chord, pattern, baseOctaveArg),
                                   method),
                    mode),
                RInt(rate)),
            RInt(tempo)),
        subdivision)

InitWith(a) ==
    /\ arp = a
    /\ out = <<>>
    /\ last = NoCall
    /\ hung = FALSE
    /\ sounding = <<>>
    /\ run = NewRun(a, 1)
    /\ host = [pos |-> 0, fires |-> <<>>, armed |-> FALSE, ok |-> TRUE]

\* The chords, with the chord method and the absent-degree policy in use.
CMajor == [chord |-> ChordFromName("c", "M"), method |-> 0, policy |-> "Next"]

ChordConfigs ==
    {[chord |-> ChordFromName("c", "M"), method |-> 0, policy |-> "Off"],
     [chord |-> ChordFromName("a", "m7"), method |-> 2, policy |-> "Previous"],
     [chord |-> ChordFromName("c", "five"), method |-> 0, policy |-> "Off"],
     [chord |-> ChordFromName("c", "five"), method |-> 0, policy |-> "Next"],
     [chord |-> ChordFromName("c", "five"), method |-> 0, policy |-> "Previous"],
     [chord |-> ChordFromName("h", "note"), method |-> 0, policy |-> "Next"],
     [chord |-> SetNotesByArray(ChordFromName("c", "M"), <<64, 60, 67>>),
      method |-> 1, policy |-> "Next"],
     [chord |-> SetNotesByArray(ChordFromName("c", "M"), <<11, 0>>),
      method |-> 1, policy |-> "Next"],
     [chord |-> SetNotesByArray(ChordFromName("c", "M"), <<>>),
      method |-> 1, policy |-> "Next"],
     [chord |-> SetDegreesByArray(ChordFromName("c", "M"), <<64, 60, 67>>),
      method |-> 0, policy |-> "Next"]}

\* The chords set from held notes: as played and collapsed into degrees.
HeldNoteConfigs == {cfg \in ChordConfigs : cfg.chord.name = CustomName}

\* The patterns: every command class, prefixes at the end of the string,
\* strings of prefixes only and of unrecognized characters only.
Patterns ==
    {<<"1", "2", "3", "2">>,
     <<"0", "1", "2", "1">>,
     <<"1", "_", "+", ".">>,
     <<"-", "=", DQuote, "9">>,
     <<"?", "+">>,
     <<"o", "+", "1", "O", "-", "2">>,
     <<"v", "1", "1", "V", "8", "2">>,
     <<"#", "1", "b", "1">>,
     <<"b", "1">>,
     <<"1", "o">>,
     <<"+", "V">>,
     <<" ", "1", "x">>,
     <<"o", "1">>,
     <<"#">>,
     <<"o", "+">>,
     <<" ">>,
     <<"#", " ">>,
     <<"2", "_">>,
     <<"v", "0", "1">>,
     <<"O", "9", "1", "o", "+", "1">>,
     <<"*", "2">>}

\* The patterns played on the other chords and in the other octaves.
ChordPatterns == {<<"1", "2", "3", "2">>, <<"?", "+">>}

\* The patterns played on the chords set from held notes: the degree
\* arithmetic around the seventh slot, and digits under an octave prefix.
HeldNotePatterns ==
    {<<"7", "+", "-", "-">>, <<"o", "-", "2", "O", "5", "4">>, <<"9", "4">>}

OctavePatterns ==
    {<<"b", "1">>, <<"o", "+", "1", "O", "-", "2">>,
     <<"b", "1", ".">>, <<"o", "-", "1", "o", "+", "2">>}

\* The usage example of the documentation: "0121" on C major, absent degrees
\* off, octave 4.
BasicUsage ==
    [cfg |-> [chord |-> ChordFromName("c", "M"), method |-> 0, policy |-> "Off"],
     pattern |-> <<"0", "1", "2", "1">>, oct |-> 4]

\* The values of the constructor's baseOctave argument beside the default.
BaseOctaveArgs == {0, 7}

\* The processBlock channel arguments: two valid ones and one out of range.
Channels == {1, 2, 17}

\* The objects of the interpreter's behaviours: every pattern on C major in
\* octave 4, some patterns on the other chords and in the other octaves.
Setups ==
    {[cfg |-> CMajor, pattern |-> pat, oct |-> 4] : pat \in Patterns}
    \cup {[cfg |-> cfg, pattern |-> pat, oct |-> 4] :
              cfg \in ChordConfigs, pat \in ChordPatterns}
    \cup {[cfg |-> CMajor, pattern |-> pat, oct |-> oct] :
              pat \in OctavePatterns, oct \in BaseOctaveArgs}
    \cup {[cfg |-> cfg, pattern |-> pat, oct |-> 4] :
              cfg \in HeldNoteConfigs, pat \in HeldNotePatterns}
    \cup {BasicUsage}

\* The interpreter: one step per sample (sample rate 1, tempo 60, quarter
\* notes).
Init ==
    \E s \in Setups :
        InitWith(Configured(s.cfg.chord, s.cfg.method, s.cfg.policy,
                            s.pattern, s.oct, 1, 60, 0))

Next ==
    \/ \E n \in 0..MaxBlock, ch \in Channels :
           \E draws \in Draws(arp, n) : ProcessBlockStep(n, ch, draws)
    \/ ResetStep
    \/ TurnOffStep

Spec == Init /\ [][Next]_vars

----------------------------------------------------------------------------
(* The clock: fractional step durations under host resynchronization. *)

\* Sample rate, tempo and subdivision index; the step lasts
\* rate * 60 / tempo / divisor samples: 1, 1/2, 3/2, 4/3, 2, 5/2, and no
\* clock at all (prepareToPlay never called with a positive rate).
ClockConfigs ==
    {[rate |-> 1, tempo |-> 60,  subdivision |-> 0],
     [rate |-> 1, tempo |-> 120, subdivision |-> 0],
     [rate |-> 3, tempo |-> 60,  subdivision |-> 2],
     [rate |-> 2, tempo |-> 60,  subdivision |-> 1],
     [rate |-> 2, tempo |-> 60,  subdivision |-> 0],
     [rate |-> 5, tempo |-> 60,  subdivision |-> 2],
     [rate |-> 0, tempo |-> 60,  subdivision |-> 0]}

ClockPatterns ==
    {<<"1", "2", "3", "2">>,
     <<"1", "_", "+", ".">>,
     <<"o", "+", "1", "O", "-", "2">>,
     <<"?", "+">>}

InitClock ==
    \E c \in ClockConfigs, pat \in ClockPatterns :
        InitWith(Configured(CMajor.chord, CMajor.method, CMajor.policy, pat, 4,
                            c.rate, c.tempo, c.subdivision))

\* The clock is played on one channel: the argument 17 is out of range and
\* stands for channel 1.
ClockChannels == {1, 17}

NextClock ==
    \/ \E n \in 0..MaxBlock, ch \in ClockChannels :
           \E draws \in Draws(arp, n) : ProcessBlockStep(n, ch, draws)
    \/ \E ppqPosition \in PpqInputs(arp) : SyncStep(ppqPosition)

SpecClock == InitClock /\ [][NextClock]_vars

----------------------------------------------------------------------------
(* The properties. *)

HasTerminal(pat) == \E i \in 1..Len(pat) : IsStepCommand(pat[i])

\* The samples at which the steps k, k + 1, ... of a grid of d samples per
\* step fall due before sample total: ceil(k * d), ceil((k + 1) * d), ...
RECURSIVE GridFrom(_, _, _)
GridFrom(d, k, total) ==
    IF RCeil(RMul(RInt(k), d)) < total
        THEN <<RCeil(RMul(RInt(k), d))>> \o GridFrom(d, k + 1, total)
        ELSE <<>>

\* C1: at most one emitted note is ever left sounding, over any sequence of
\* processBlock, reset and turnOff calls.
Monophony == Len(sounding) <= 1

\* C2: when one step emits a note-off and a note-on, both carry the same
\* sample offset and the note-off precedes the note-on in the buffer that
\* processBlock returns.
NoteOffBeforeNoteOn ==
    \A i, j \in 1..Len(out) :
        (out[i].k = out[j].k /\ out[i].kind = "off" /\ out[j].kind = "on")
            => (i < j /\ out[i].t = out[j].t)

\* A returned buffer in which a step past the block's first sample has emitted
\* a note-off and a note-on.
NoteOffBeforeNoteOnReached ==
    /\ last.op = "processBlock"
    /\ \E i, j \in 1..Len(out) :
           /\ out[i].k = out[j].k /\ out[i].kind = "off" /\ out[j].kind = "on"
           /\ out[i].t >= 1

SameAsOneCall(whole) == whole.events = run.events /\ whole.arp = arp

\* C3: for a pattern without '?', the blocks played since a given state yield
\* the events, at the absolute sample positions, and leave the object that
\* one processBlock call of their total length yields and leaves.
BlockSizeInvariance ==
    (~hung /\ ~HasRandom(arp.pattern))
        => SameAsOneCall(ProcessBlock(run.start, run.elapsed, run.ch,
                                      Zeros(run.elapsed)))

\* Several blocks of a step of 3/2 samples, with a note already replaced.
BlockSizeInvarianceReached ==
    /\ ~HasRandom(arp.pattern)
    /\ last.op = "processBlock"
    /\ run.elapsed > MaxBlock
    /\ run.start.samplesPerNote = Rat(3, 2)
    /\ Len(run.events) >= 3

\* C4: from a countdown of 0 and with a step of d >= 1 samples, over any
\* partition into blocks, the k-th getNext (k = 0, 1, ...) happens at the
\* absolute sample ceil(k * d), once per step boundary.
NoDrift ==
    (run.start.samplesUntilNextNote = RInt(0)
     /\ RLe(RInt(1), run.start.samplesPerNote))
        => run.fires = GridFrom(run.start.samplesPerNote, 0, run.elapsed)

\* Several blocks of a step of 4/3 samples, three steps played.
NoDriftReached ==
    /\ run.start.samplesUntilNextNote = RInt(0)
    /\ run.start.samplesPerNote = Rat(4, 3)
    /\ run.elapsed > MaxBlock
    /\ run.fires = <<0, 2, 3>>

\* C5: getNext terminates for every pattern that holds a terminal command.
TerminalPatternTerminates == HasTerminal(arp.pattern) => ~hung

\* C6: getNext terminates for every non-empty pattern that holds no terminal
\* command, after consuming at most 2 * pattern.length() characters.
PrefixPatternTerminates ==
    (arp.pattern # <<>> /\ ~HasTerminal(arp.pattern))
        => /\ ~hung
           /\ \A i \in 1..Len(last.calls) :
                  last.calls[i].consumed <= 2 * Len(arp.pattern)

\* C7: a getNext call that finds no terminal command puts no note-on in the
\* returned buffer.
NoCommandIsRest ==
    (last.op = "processBlock" /\ ~hung)
        => \A i \in 1..Len(last.calls) :
               ~last.calls[i].found
                   => ~\E j \in 1..Len(out) : out[j].k = i /\ out[j].kind = "on"

\* C8: when syncToPlayHead precedes every processBlock with the host position
\* of the samples played so far and the step lasts d >= 1 samples, getNext is
\* invoked once for every step boundary of the host grid, at its sample.
ResyncLosesNothing ==
    (host.ok /\ RLe(RInt(1), arp.samplesPerNote))
        => host.fires = GridFrom(arp.samplesPerNote, 0, host.pos)

\* C9: after syncToPlayHead at a position p >= 0, on a pattern with steps, the
\* cursor is the character offset of step ceil(p * divisor) mod numSteps().
SyncSetsCursor ==
    (last.op = "syncToPlayHead" /\ RLe(RInt(0), last.ppq)
     /\ NumSteps(arp.pattern) > 0)
        => arp.pos = GetPatternIndexForStep(arp.pattern,
               RCeil(RMul(last.ppq, GetNoteDivisor(arp.subdivision)))
                   % NumSteps(arp.pattern))

CountdownIs(songPosInSteps, samplesPerNote) ==
    /\ arp.samplesUntilNextNote =
           RMul(RSub(RInt(RCeil(songPosInSteps)), songPosInSteps), samplesPerNote)
    /\ RLe(RInt(0), arp.samplesUntilNextNote)
    /\ RLt(arp.samplesUntilNextNote, samplesPerNote)
    /\ (arp.samplesUntilNextNote = RInt(0)
            <=> songPosInSteps = RInt(RFloor(songPosInSteps)))

\* C10: after syncToPlayHead at a position p >= 0, on a pattern with steps and
\* with a valid clock, samplesUntilNextNote is
\* (ceil(p * divisor) - p * divisor) * samplesPerNote, in [0, samplesPerNote),
\* and 0 exactly when p lies on a step boundary.
SyncCountdown ==
    (last.op = "syncToPlayHead" /\ RLe(RInt(0), last.ppq)
     /\ NumSteps(arp.pattern) > 0 /\ RLt(RInt(0), arp.samplesPerNote))
        => CountdownIs(RMul(last.ppq, GetNoteDivisor(arp.subdivision)),
                       arp.samplesPerNote)

\* A synchronization between two step boundaries, after some blocks.
SyncCountdownReached ==
    /\ last.op = "syncToPlayHead"
    /\ RLe(RInt(0), last.ppq)
    /\ host.pos > 0
    /\ RLt(RInt(0), arp.samplesUntilNextNote)
    /\ arp.samplesUntilNextNote.den > 1

SameCursorAndCountdown(once, twice) ==
    once.pos = twice.pos /\ once.samplesUntilNextNote = twice.samplesUntilNextNote

SyncTwice(once, ppqPosition) ==
    SameCursorAndCountdown(once, SyncToPlayHead(once, ppqPosition))

\* C11: from any reachable state and for any host position, syncToPlayHead
\* called twice in a row leaves the cursor and the countdown that one call
\* leaves.
SyncIdempotent ==
    \A ppqPosition \in PpqInputs(arp) :
        SyncTwice(SyncToPlayHead(arp, ppqPosition), ppqPosition)

\* A synchronization, after a played note, to a position between two step
\* boundaries, which a second one at the distance it has left would move.
SyncIdempotentReached ==
    /\ last.op = "syncToPlayHead"
    /\ sounding # <<>>
    /\ RLt(RInt(0), arp.samplesUntilNextNote)
    /\ RLt(arp.samplesUntilNextNote, arp.samplesPerNote)
    /\ arp.pos > 0

CallsOf(c) ==
    {i \in 1..Len(last.calls) :
         /\ last.calls[i].cmdIndex # -1
         /\ arp.pattern[last.calls[i].cmdIndex + 1] = c}

EventsOf(i) == {j \in 1..Len(out) : out[j].k = i}

\* C13: a step whose terminal command is '_' returns no event, leaves
\* lastPlayedMidiNote, lastPlayedMidiChannel and lastPlayedDegreeIndex as
\* they were and puts pos after the '_', wrapping at the end of the pattern.
SustainKeepsNote ==
    (last.op = "processBlock" /\ ~hung)
        => \A i \in CallsOf("_") :
               /\ EventsOf(i) = {}
               /\ last.calls[i].after.lastPlayedMidiNote
                      = last.calls[i].before.lastPlayedMidiNote
               /\ last.calls[i].after.lastPlayedMidiChannel
                      = last.calls[i].before.lastPlayedMidiChannel
               /\ last.calls[i].after.lastPlayedDegreeIndex
                      = last.calls[i].before.lastPlayedDegreeIndex
               /\ last.calls[i].after.pos
                      = (last.calls[i].cmdIndex + 1) % Len(arp.pattern)

\* A '_' at the end of the pattern, met while a note of the second degree
\* sounds on channel 2.
SustainKeepsNoteReached ==
    /\ last.op = "processBlock" /\ ~hung
    /\ \E i \in CallsOf("_") :
           /\ last.calls[i].before.lastPlayedMidiNote # -1
           /\ last.calls[i].before.lastPlayedMidiChannel = 2
           /\ last.calls[i].before.lastPlayedDegreeIndex = 1
           /\ last.calls[i].after.pos = 0

\* The events of a returned buffer that the getNext invocations i with
\* from <= i <= to have made.
EventsBetween(buf, from, to) ==
    LET Made(e) == from <= e.k /\ e.k <= to
    IN  SelectSeq(buf, Made)

\* What a step that rests owes: given the notes sounding before it and the
\* events it has made, no note-on, one note-off if a note was sounding and
\* none otherwise, and no note sounding after it.
Rests(prior, made) ==
    /\ \A j \in 1..Len(made) : made[j].kind = "off"
    /\ Len(made) = IF prior # <<>> THEN 1 ELSE 0
    /\ Deliver(prior, made) = <<>>

NoteOns(buf) ==
    LET IsOn(e) == e.kind = "on"
    IN  SelectSeq(buf, IsOn)

BasicUsagePitches == <<60, 64, 67, 64>>

RelativeOctaveCalls(arg) ==
    {i \in 1..Len(last.calls) :
         /\ last.calls[i].consumed = 3
         /\ last.calls[i].cmdIndex = last.calls[i].before.pos + 2
         /\ arp.pattern[last.calls[i].before.pos + 1] = "o"
         /\ arp.pattern[last.calls[i].before.pos + 2] = arg
         /\ arp.pattern[last.calls[i].cmdIndex + 1] \notin {"_", ".", "?"}}

\* The pitches of the note-ons of invocation i, and of those the degree
\* command of invocation i makes when the prefix before it is left out.
PitchesOf(events) == [j \in 1..Len(NoteOns(events)) |-> NoteOns(events)[j].note]

PitchesWithPrefix(i) == PitchesOf(EventsBetween(out, i, i))

PitchesWithoutPrefix(i) ==
    PitchesOf(GetNext([last.calls[i].before EXCEPT !.pos = last.calls[i].cmdIndex],
                      1, 0).events)

Shifted(pitches, by) == [j \in 1..Len(pitches) |-> pitches[j] + by]

ConsumedBy(i) ==
    {arp.pattern[((last.calls[i].before.pos + j) % Len(arp.pattern)) + 1] :
         j \in 0..(last.calls[i].consumed - 1)}

\* Invocation i has consumed the prefix c, a digit and its terminal command.
SetsAbsolute(i, c) ==
    /\ last.calls[i].consumed = 3
    /\ last.calls[i].cmdIndex = last.calls[i].before.pos + 2
    /\ arp.pattern[last.calls[i].before.pos + 1] = c
    /\ IsDigit(arp.pattern[last.calls[i].before.pos + 2])

ArgumentOf(i) == DigitValue(arp.pattern[last.calls[i].before.pos + 2])

\* C17: a step without 'O' leaves the global octave as it was and a step
\* without 'V' the global velocity, whatever 'o', 'v', '#', 'b' it holds; the
\* next step starts from these values, and its note-on carries the global
\* velocity unless it holds a 'v' itself; 'O' and 'V' with a digit set the
\* global value, which the steps after them find.
LocalOrGlobal ==
    (last.op = "processBlock" /\ ~hung)
        => /\ \A i \in 1..Len(last.calls) :
                  /\ "O" \notin ConsumedBy(i)
                         => last.calls[i].after.octave = last.calls[i].before.octave
                  /\ "V" \notin ConsumedBy(i)
                         => last.calls[i].after.globalVelocity
                                = last.calls[i].before.globalVelocity
                  /\ "v" \notin ConsumedBy(i)
                         => \A j \in EventsOf(i) :
                                out[j].kind = "on"
                                    => out[j].vel = last.calls[i].after.globalVelocity
                  /\ SetsAbsolute(i, "O")
                         => last.calls[i].after.octave = ArgumentOf(i)
                  /\ SetsAbsolute(i, "V")
                         => last.calls[i].after.globalVelocity
                                = Min(127, 16 * ArgumentOf(i))
           /\ \A i \in 1..(Len(last.calls) - 1) :
                  /\ last.calls[i + 1].before.octave = last.calls[i].after.octave
                  /\ last.calls[i + 1].before.globalVelocity
                         = last.calls[i].after.globalVelocity
           /\ Len(last.calls) > 0
                  => /\ arp.octave = last.calls[Len(last.calls)].after.octave
                     /\ arp.globalVelocity
                            = last.calls[Len(last.calls)].after.globalVelocity

\* A step with 'v1' played at velocity 16 after a 'V8' had set the global
\* velocity to 127, which the step leaves.
LocalOrGlobalReached ==
    /\ last.op = "processBlock" /\ ~hung
    /\ \E i \in 1..Len(last.calls) :
           /\ "v" \in ConsumedBy(i)
           /\ last.calls[i].before.globalVelocity = 127
           /\ last.calls[i].after.globalVelocity = 127
           /\ \E j \in EventsOf(i) : out[j].kind = "on" /\ out[j].vel = 16

\* C18: the global octave lies in 0..7 after every operation and every step,
\* whatever character follows an 'o' or an 'O'.
OctaveInRange ==
    /\ arp.octave \in 0..7
    /\ \A i \in 1..Len(last.calls) : last.calls[i].after.octave \in 0..7

\* C19: every note-on that processBlock returns carries a pitch in 0..127.
PitchInRange ==
    \A j \in 1..Len(out) : out[j].kind = "on" => out[j].note \in 0..127

\* C20: every note-on carries a velocity in 1..127, and the note-on of a step
\* "vN" with N in 1..8 the velocity min(127, 16 * N).
VelocityInRange ==
    /\ \A j \in 1..Len(out) : out[j].kind = "on" => out[j].vel \in 1..127
    /\ (last.op = "processBlock" /\ ~hung)
           => \A i \in 1..Len(last.calls) :
                  (SetsAbsolute(i, "v") /\ ArgumentOf(i) \in 1..8)
                      => \A j \in EventsOf(i) :
                             out[j].kind = "on"
                                 => out[j].vel = Min(127, 16 * ArgumentOf(i))

----------------------------------------------------------------------------
(* processBlock: the offsets of the events it returns. *)

\* The number of samples of the processBlock call a step of the behaviour
\* makes: the host position advances by it.
BlockLength == host'.pos - host.pos

\* C21: every event returned by processBlock(N) has an offset t with
\* 0 <= t < N, and processBlock(0) returns no event and invokes no step.
EventsInsideBlock ==
    [][(last'.op = "processBlock" /\ ~hung') =>
          /\ \A j \in 1..Len(out') : 0 <= out'[j].t /\ out'[j].t < BlockLength
          /\ BlockLength = 0 => (out' = <<>> /\ last'.calls = <<>>)]_vars

\* A block of MaxBlock samples has returned an event at its last sample.
EventsInsideBlockReached ==
    /\ last.op = "processBlock"
    /\ ~hung
    /\ Len(last.calls) = MaxBlock
    /\ \E j \in 1..Len(out) : out[j].t = MaxBlock - 1

----------------------------------------------------------------------------
(* The channels of the events. *)

\* The notes sounding just before the j-th event of buf, snd being those
\* sounding before its first: the last of them is the most recent note-on.
SoundingBefore(snd, buf, j) == Deliver(snd, SubSeq(buf, 1, j - 1))

\* The note-off buf[j] ends the most recent note-on, on its channel and pitch.
EndsLatest(prior, e) ==
    /\ prior # <<>>
    /\ prior[Len(prior)] = <<e.ch, e.note>>

\* C22: every emitted event has a channel in 1..16, and every note-off is
\* emitted on the channel and the pitch of the most recent note-on, whatever
\* channel argument the later call is given.
ChannelsMatch ==
    [][\A j \in 1..Len(out') :
          /\ out'[j].ch \in 1..16
          /\ out'[j].kind = "off" =>
                 EndsLatest(SoundingBefore(sounding, out', j), out'[j])]_vars

\* A call given another channel than the one before it has ended the note of
\* that call on the earlier channel and started its own note on the new one.
ChannelsMatchReached ==
    /\ last.op = "processBlock"
    /\ \E j \in 1..Len(out), k \in 1..Len(out) :
          /\ j < k
          /\ out[j].kind = "off" /\ out[k].kind = "on"
          /\ out[j].t = out[k].t
          /\ out[j].ch # out[k].ch

----------------------------------------------------------------------------
(* The chord degrees. *)

\* Invocation i of the last processBlock call is a step of one character, a
\* digit from 1 to 7, on a chord made from a name.
DigitOnNamedChord(i) ==
    LET c == last.calls[i]
    IN  /\ c.before.chordMethod # 1
        /\ c.before.chord.name # CustomName
        /\ c.consumed = 1
        /\ c.cmdIndex = c.before.pos
        /\ c.before.pattern[c.cmdIndex + 1] \in {"1", "2", "3", "4", "5", "6", "7"}

\* The degree index such a step asks for.
DegreeAsked(i) ==
    DigitValue(last.calls[i].before.pattern[last.calls[i].cmdIndex + 1]) - 1

PresentSlots(chord) == {j \in 0..6 : chord.degrees[j + 1] # -1}

\* The present slot nearest to d in the direction dir (1: ascending, -1:
\* descending), wrapping at 7.
NearestPresent(chord, d, dir) ==
    LET at(n) == (d + 7 + dir * n) % 7
        n == CHOOSE m \in 1..6 :
                 /\ at(m) \in PresentSlots(chord)
                 /\ \A k \in 1..(m - 1) : at(k) \notin PresentSlots(chord)
    IN  at(n)

\* The pitches of the note-ons invocation i has returned.
NoteOnsOf(i) == {out[j].note : j \in {k \in EventsOf(i) : out[k].kind = "on"}}

\* C23: on a chord made from a name, a step on a degree whose slot is absent
\* sounds, under "Next", the first present slot above it (wrapping at 7),
\* under "Previous" the first present slot below it, and under "Off" no note.
AbsentDegreePolicy ==
    (last.op = "processBlock" /\ ~hung)
        => \A i \in 1..Len(last.calls) :
               LET a == last.calls[i].before
                   d == DegreeAsked(i)
                   sounds(slot) == {a.chord.degrees[slot + 1] + 12 * a.octave}
               IN  (/\ DigitOnNamedChord(i)
                    /\ d \notin PresentSlots(a.chord)
                    /\ PresentSlots(a.chord) # {})
                       => /\ a.playNoteOff = "Off" => NoteOnsOf(i) = {}
                          /\ a.playNoteOff = "Next"
                                 => NoteOnsOf(i) = sounds(NearestPresent(a.chord, d, 1))
                          /\ a.playNoteOff = "Previous"
                                 => NoteOnsOf(i) = sounds(NearestPresent(a.chord, d, -1))

\* On C5 under "Next", the step '2' (degree 1, absent) has sounded the fifth
\* (degree 2) in octave 4.
AbsentDegreePolicyReached ==
    /\ last.op = "processBlock" /\ ~hung
    /\ arp.chord = ChordFromName("c", "five")
    /\ arp.playNoteOff = "Next"
    /\ \E i \in 1..Len(last.calls) :
           /\ DigitOnNamedChord(i)
           /\ DegreeAsked(i) = 1
           /\ NoteOnsOf(i) = {55}

----------------------------------------------------------------------------
(* The chords set from held notes. *)

\* The notes of a chord set from held notes, ascending: the raw notes as
\* played, or the degrees the notes were collapsed into.
HeldNotes(a) ==
    IF a.chordMethod = 1 THEN a.chord.rawNotes ELSE GetSortedSet(a.chord)

\* The pitch at which the object sounds the n-th (0-based) held note in the
\* octave oct.
HeldPitch(a, n, oct) ==
    IF a.chordMethod = 1 THEN HeldNotes(a)[n + 1] + 12 * (oct - a.baseOctave)
                         ELSE HeldNotes(a)[n + 1] + 12 * oct

\* Invocation i is a step of the one character its terminal command, on a
\* chord set from held notes, fewer than seven of them.
StepOnHeldNotes(i) ==
    LET c == last.calls[i]
    IN  /\ c.before.chord.name = CustomName
        /\ Len(HeldNotes(c.before)) \in 1..6
        /\ c.consumed = 1
        /\ c.cmdIndex = c.before.pos

\* The place among the n held notes of the note such a step is to sound: the
\* one after or before the note of lastPlayedDegreeIndex for '+' and '-', the
\* note (D - 1) mod n for the digit D.
PlaceInCycle(i) ==
    LET c == last.calls[i]
        n == Len(HeldNotes(c.before))
        command == c.before.pattern[c.cmdIndex + 1]
        place == c.before.lastPlayedDegreeIndex % n
    IN  IF command = "+" THEN (place + 1) % n
        ELSE IF command = "-" THEN (place + n - 1) % n
        ELSE (DigitValue(command) - 1) % n

\* C24: on a chord set from n < 7 held notes, collapsed or as played, '+'
\* sounds the note after the last one in the cycle of the n notes, '-' the
\* note before it, and a digit D the note (D - 1) mod n.
ActiveSizeArithmetic ==
    (last.op = "processBlock" /\ ~hung)
        => \A i \in 1..Len(last.calls) :
               LET c == last.calls[i]
                   command == c.before.pattern[c.cmdIndex + 1]
               IN  (StepOnHeldNotes(i)
                    /\ command \in {"+", "-", "1", "2", "3", "4", "5", "6", "7", "8", "9"})
                       => NoteOnsOf(i) =
                              {HeldPitch(c.before, PlaceInCycle(i), c.before.octave)}

\* Invocation i is a step on raw notes as played whose terminal command is a
\* digit from 1 to 9, without '#' or 'b'.
DigitAsPlayed(i) ==
    LET c == last.calls[i]
    IN  /\ c.before.chordMethod = 1
        /\ c.cmdIndex # -1
        /\ c.before.pattern[c.cmdIndex + 1] \in (Digits \ {"0"})
        /\ ConsumedBy(i) \cap {"#", "b"} = {}

\* The octave in use in invocation i: the global one the step leaves, or,
\* for the step 'o-' and a digit, the one below the global one.
OctaveInUse(i) ==
    LET c == last.calls[i]
    IN  IF c.consumed = 3 /\ c.before.pattern[c.before.pos + 1] = "o"
           /\ c.before.pattern[c.before.pos + 2] = "-"
            THEN Max(0, c.before.octave - 1)
            ELSE c.after.octave

\* The step takes its octave from the global one, from an 'O' or from 'o-'.
OctaveKnown(i) ==
    \/ "o" \notin ConsumedBy(i)
    \/ /\ last.calls[i].consumed = 3
       /\ last.calls[i].before.pattern[last.calls[i].before.pos + 1] = "o"
       /\ last.calls[i].before.pattern[last.calls[i].before.pos + 2] = "-"

\* C25: with the raw notes as played (chord method 1), the digit D sounds
\* the raw note (D - 1) mod size of the sorted list, shifted by 12 times
\* (octave in use - base octave); with an empty list no step sounds a note.
AsPlayedPitch ==
    (last.op = "processBlock" /\ ~hung)
        => \A i \in 1..Len(last.calls) :
               LET a == last.calls[i].before
                   raw == a.chord.rawNotes
                   command == a.pattern[last.calls[i].cmdIndex + 1]
               IN  /\ (a.chordMethod = 1 /\ raw = <<>>) => NoteOnsOf(i) = {}
                   /\ (DigitAsPlayed(i) /\ OctaveKnown(i) /\ raw # <<>>)
                          => NoteOnsOf(i) =
                                 {raw[((DigitValue(command) - 1) % Len(raw)) + 1]
                                      + 12 * (OctaveInUse(i) - a.baseOctave)}

----------------------------------------------------------------------------
(* The random command. *)

\* The degree indices a random step may resolve to: the places of the raw
\* notes as played, the present slots otherwise.
PresentIndices(a) ==
    IF a.chordMethod = 1 THEN 0..(Len(a.chord.rawNotes) - 1)
                         ELSE PresentSlots(a.chord)

\* The pitch of the degree index d, present, in the global octave.
PitchOfPresent(a, d) ==
    IF a.chordMethod = 1
        THEN a.chord.rawNotes[d + 1] + 12 * (a.octave - a.baseOctave)
        ELSE a.chord.degrees[d + 1] + 12 * a.octave

\* Invocation i starts at a character of cs and that character is its
\* terminal command.
TerminalIn(i, cs) ==
    /\ last.calls[i].before.pattern[last.calls[i].before.pos + 1] \in cs
    /\ last.calls[i].cmdIndex = last.calls[i].before.pos

\* Invocation i has sounded a present degree of the chord, and nothing if the
\* chord has none.
SoundsPresent(i) ==
    LET a == last.calls[i].before
    IN  IF PresentIndices(a) = {}
            THEN NoteOnsOf(i) = {}
            ELSE \E d \in PresentIndices(a) :
                     /\ last.calls[i].after.lastPlayedDegreeIndex = d
                     /\ NoteOnsOf(i) = {PitchOfPresent(a, d)}

\* C26: '?' and '*' are terminal commands, and a step of one of them sounds,
\* whatever the random source delivers, a present degree of the chord, and no
\* note when the chord has no present degree.
RandomPlaysPresent ==
    (last.op = "processBlock" /\ ~hung)
        => \A i \in 1..Len(last.calls) :
               last.calls[i].before.pattern[last.calls[i].before.pos + 1]
                       \in {"?", "*"}
                   => TerminalIn(i, {"?", "*"}) /\ SoundsPresent(i)

----------------------------------------------------------------------------
(* The setters between the blocks. *)

\* The objects of the behaviours with setters: C major in octave 4 prepared
\* and never prepared, an empty pattern, and 'b1' in octave 0.
ControlSetups ==
    {[pattern |-> <<"1", "2", "3", "2">>, oct |-> 4, rate |-> 1],
     [pattern |-> <<"1", "2", "3", "2">>, oct |-> 4, rate |-> 0],
     [pattern |-> <<>>, oct |-> 4, rate |-> 1],
     [pattern |-> <<"b", "1">>, oct |-> 0, rate |-> 1]}

\* The arguments of the setters: sample rates, tempos (120 makes a step half
\* a sample), patterns, a countdown far below zero.
RateInputs == {RInt(0), RInt(1)}

TempoInputs == {RInt(0), RInt(-60), RInt(120)}

PatternInputs == {<<>>, <<"2">>, <<"_", "3">>}

CountdownInputs == {RInt(-50)}

\* The characters a read past the end of the pattern may deliver.
ReadPastEnd == {"2", "."}

InitControl ==
    \E s \in ControlSetups :
        InitWith(Configured(CMajor.chord, CMajor.method, CMajor.policy,
                            s.pattern, s.oct, s.rate, 60, 0))

NextControl ==
    \/ \E n \in 0..MaxBlock : ProcessBlockStep(n, 1, Zeros(n))
    \/ \E rate \in RateInputs : PrepareStep(rate)
    \/ \E tempo \in TempoInputs : SetTempoStep(tempo)
    \/ \E pat \in PatternInputs : SetPatternStep(pat)
    \/ \E samples \in CountdownInputs : SetSamplesStep(samples)

SpecControl == InitControl /\ [][NextControl]_vars

\* The object is not ready to play: no pattern, or no sample rate.
NotReady(a) == a.pattern = <<>> \/ RLe(a.sampleRate, RInt(0))

\* C27: processBlock on an object whose pattern is empty or whose sample
\* rate is not positive returns no event, invokes no step and leaves pos,
\* samplesUntilNextNote and the sounding note as they were; setTempo with a
\* value that is not positive leaves the object as setTempo(120) does.
NotReadyIsSilent ==
    [][/\ (last'.op = "processBlock" /\ NotReady(arp))
              => /\ out' = <<>>
                 /\ last'.calls = <<>>
                 /\ arp'.pos = arp.pos
                 /\ arp'.samplesUntilNextNote = arp.samplesUntilNextNote
                 /\ arp'.lastPlayedMidiNote = arp.lastPlayedMidiNote
                 /\ arp'.lastPlayedMidiChannel = arp.lastPlayedMidiChannel
                 /\ sounding' = sounding
       /\ (last'.op = "setTempo" /\ RLe(last'.arg[1], RInt(0)))
              => /\ arp'.tempoBPM = RInt(120)
                 /\ RLt(RInt(0), arp.sampleRate)
                        => arp'.samplesPerNote
                               = RDiv(RDiv(RMul(arp.sampleRate, RInt(60)), RInt(120)),
                                      GetNoteDivisor(arp.subdivision))
                 /\ [arp' EXCEPT !.tempoBPM = arp.tempoBPM,
                                 !.samplesPerNote = arp.samplesPerNote] = arp]_vars

\* processBlock has been called on an object prepared with a positive rate,
\* then with the rate 0, while a note was sounding.
NotReadyIsSilentReached ==
    /\ last.op = "processBlock"
    /\ arp.sampleRate = RInt(0)
    /\ RLt(RInt(0), arp.samplesPerNote)
    /\ arp.lastPlayedMidiNote # -1
    /\ sounding # <<>>
    /\ host.pos = MaxTotal

\* The values of s increase strictly.
StrictlyIncreasing(s) == \A i, j \in 1..Len(s) : i < j => s[i] < s[j]

\* C28: within one processBlock call the value of time increases in every
\* pass of the loop, so that no two getNext invocations have the same offset
\* and the loop makes at most numSamples passes, for a step of one sample
\* and of half a sample and for a countdown set far below zero.
TimeAdvances ==
    [][(last'.op = "processBlock" /\ ~hung') =>
          /\ StrictlyIncreasing(last'.passes)
          /\ StrictlyIncreasing([i \in 1..Len(last'.calls) |-> last'.calls[i].t])
          /\ \A i \in 1..Len(last'.calls) :
                 \E p \in 1..Len(last'.passes) : last'.passes[p] = last'.calls[i].t
          /\ Len(last'.passes) <= BlockLength
          /\ \A p \in 1..Len(last'.passes) :
                 last'.passes[p] >= 0 /\ last'.passes[p] < BlockLength]_vars

\* A block of MaxBlock samples has started with the countdown 50 samples
\* below zero and steps of half a sample, and has made one step per sample.
TimeAdvancesReached ==
    /\ last.op = "processBlock" /\ ~hung
    /\ Len(last.calls) = MaxBlock
    /\ Len(last.passes) = MaxBlock
    /\ last.calls[1].before.samplesUntilNextNote = RInt(-50)
    /\ last.calls[1].before.samplesPerNote = Rat(1, 2)

----------------------------------------------------------------------------
(* setPattern. *)

\* The getNext invocations of the processBlock call just made that are not
\* a sustain.
NotSustained ==
    {i \in 1..Len(last'.calls) :
         ~(/\ last'.calls[i].cmdIndex # -1
           /\ arp'.pattern[last'.calls[i].cmdIndex + 1] = "_")}

\* The note snd, sounding before the call, is turned off by invocation i.
TurnedOffBy(snd, i) ==
    \E j \in 1..Len(out') :
        /\ out'[j].k = i
        /\ out'[j].kind = "off"
        /\ <<out'[j].ch, out'[j].note>> = snd

\* C29: setPattern sets the pattern, pos to 0 and the global octave to the
\* base octave, returns nothing and leaves the sounding note,
\* lastPlayedDegreeIndex, the global velocity and samplesUntilNextNote as they
\* were; the first step after it that is not a sustain turns off the note
\* that was sounding.
SetPatternFrame ==
    [][/\ last'.op = "setPattern"
              => /\ arp'.pattern = last'.arg
                 /\ arp'.pos = 0
                 /\ arp'.octave = arp.baseOctave
                 /\ out' = <<>>
                 /\ sounding' = sounding
                 /\ arp'.lastPlayedMidiNote = arp.lastPlayedMidiNote
                 /\ arp'.lastPlayedMidiChannel = arp.lastPlayedMidiChannel
                 /\ arp'.lastPlayedDegreeIndex = arp.lastPlayedDegreeIndex
                 /\ arp'.globalVelocity = arp.globalVelocity
                 /\ arp'.samplesUntilNextNote = arp.samplesUntilNextNote
       /\ (last.op = "setPattern" /\ last'.op = "processBlock" /\ ~hung'
             /\ NotSustained # {})
              => \A n \in 1..Len(sounding) :
                     TurnedOffBy(sounding[n],
                                 CHOOSE i \in NotSustained :
                                     \A k \in NotSustained : i <= k)]_vars

----------------------------------------------------------------------------
(* setPattern during getNext. *)

\* The patterns a getNext is raced on.
RacePatterns == {<<"1", "2", "3", "2">>, <<"1", "_", "+", ".">>}

InitRace ==
    \E pat \in RacePatterns :
        InitWith(Configured(CMajor.chord, CMajor.method, CMajor.policy,
                            pat, 4, 1, 60, 0))

NextRace ==
    \/ \E n \in 0..MaxBlock, ch \in ClockChannels :
           ProcessBlockStep(n, ch, Zeros(n))
    \/ \E pat \in PatternInputs, point \in {"entered", "reading"},
          complete \in BOOLEAN, trap \in BOOLEAN, c \in ReadPastEnd :
           RaceStep(pat, point, complete, trap, c)

SpecRace == InitRace /\ [][NextRace]_vars

\* C30: a getNext raced by setPattern never reads the pattern at an index
\* that is not below its length and never takes pos modulo zero; it returns,
\* and with no event when the pattern has become empty.
RaceIsHarmless ==
    [][last'.op = "race"
          => /\ last'.fault = "none"
             /\ ~hung'
             /\ last'.arg = <<>> => out' = <<>>]_vars

----------------------------------------------------------------------------
(* The period of the pattern. *)

\* What the next n getNext invocations on the object a do, one after the
\* other and up to the first that does not return: whether each found a
\* terminal command, the index of that command and getCurrentStepIndex()
\* after it. g is the first of them.
RECURSIVE Traverse(_, _)
TraverseFrom(g, n) ==
    <<[found |-> g.found, cmdIndex |-> g.cmdIndex, hangs |-> g.hangs,
       step |-> g.arp.currentStepIndex]>>
        \o (IF g.hangs THEN <<>> ELSE Traverse(g.arp, n - 1))

Traverse(a, n) == IF n = 0 THEN <<>> ELSE TraverseFrom(GetNext(a, 1, 0), n)

\* The traversal t of 2 * n invocations is complete, each invocation has
\* executed one terminal command, invocation k + n the command of
\* invocation k, and each has left the step index below n.
PeriodicIn(t, n) ==
    /\ Len(t) = 2 * n
    /\ \A k \in 1..Len(t) : t[k].found /\ ~t[k].hangs /\ t[k].step \in 0..(n - 1)
    /\ \A k \in 1..n : t[k + n].cmdIndex = t[k].cmdIndex

\* C31: from pos = 0, on every pattern with numSteps() > 0, each getNext
\* call executes exactly one terminal command, call k + numSteps() executes
\* the command call k executed, and getCurrentStepIndex() is below numSteps()
\* after every call.
PatternLoops ==
    (~hung /\ arp.pos = 0 /\ NumSteps(arp.pattern) > 0)
        => PeriodicIn(Traverse(arp, 2 * NumSteps(arp.pattern)),
                      NumSteps(arp.pattern))

----------------------------------------------------------------------------
(* The chords. *)

\* The root names of the note table with their pitch classes, as written
\* with a capital letter.
RootNames ==
    {[letters |-> <<"C">>, pc |-> 0], [letters |-> <<"B", "#">>, pc |-> 0],
     [letters |-> <<"C", "#">>, pc |-> 1], [letters |-> <<"D", "b">>, pc |-> 1],
     [letters |-> <<"D">>, pc |-> 2],
     [letters |-> <<"D", "#">>, pc |-> 3], [letters |-> <<"E", "b">>, pc |-> 3],
     [letters |-> <<"E">>, pc |-> 4], [letters |-> <<"F", "b">>, pc |-> 4],
     [letters |-> <<"F">>, pc |-> 5], [letters |-> <<"E", "#">>, pc |-> 5],
     [letters |-> <<"F", "#">>, pc |-> 6], [letters |-> <<"G", "b">>, pc |-> 6],
     [letters |-> <<"G">>, pc |-> 7],
     [letters |-> <<"G", "#">>, pc |-> 8], [letters |-> <<"A", "b">>, pc |-> 8],
     [letters |-> <<"A">>, pc |-> 9],
     [letters |-> <<"A", "#">>, pc |-> 10], [letters |-> <<"B", "b">>, pc |-> 10],
     [letters |-> <<"B">>, pc |-> 11], [letters |-> <<"C", "b">>, pc |-> 11]}

UpperChar(c) == IF c = "b" THEN "B" ELSE c

\* A root name as written, in lower case and in upper case.
Spellings(letters) ==
    {letters,
     [i \in 1..Len(letters) |-> LowerChar(letters[i])],
     [i \in 1..Len(letters) |-> UpperChar(letters[i])]}

\* The supported qualities: the suffix as written and the intervals, in
\* semitones above the root, of the third, the fifth and the seventh (-1: the
\* slot is absent).
Qualities ==
    {[suffix |-> <<"M", "7">>, third |-> 4, fifth |-> 7, seventh |-> 11],
     [suffix |-> <<"m", "7">>, third |-> 3, fifth |-> 7, seventh |-> 10],
     [suffix |-> <<"7">>, third |-> 4, fifth |-> 7, seventh |-> 10],
     [suffix |-> <<"5">>, third |-> -1, fifth |-> 7, seventh |-> -1],
     [suffix |-> <<"m">>, third |-> 3, fifth |-> 7, seventh |-> -1],
     [suffix |-> <<"M">>, third |-> 4, fifth |-> 7, seventh |-> -1],
     [suffix |-> <<>>, third |-> -1, fifth |-> -1, seventh |-> -1]}

\* The chord names of the supported grammar, some of them between spaces.
ChordNames ==
    {s \o q.suffix : s \in UNION {Spellings(r.letters) : r \in RootNames},
                     q \in Qualities}
    \cup {<<" ", "C", "M", "7">>, <<"A", "m", "7", " ">>}

\* The degrees the quality q gives to the root of pitch class pc.
DegreesOf(pc, q) ==
    LET slot(interval) == IF interval = -1 THEN -1 ELSE (pc + interval) % 12
    IN  <<pc, slot(q.third), slot(q.fifth), slot(q.seventh), -1, -1, -1>>

\* The names outside the grammar: no name, spaces, roots that are not in the
\* note table, a quality the constructor does not know.
InvalidNames ==
    {<<>>, <<" ">>, <<"H">>, <<"H", "m", "7">>, <<"X", "5">>, <<"m">>,
     <<"C", "m", "a", "j", "7">>, <<"C", "b", "b">>}

\* The object whose chord is replaced by every chord of the grammar.
InitChord ==
    InitWith(Configured(CMajor.chord, 0, "Next", <<"1", "2", "3", "4">>, 4, 1, 60, 0))

NextChord ==
    \/ \E n \in 0..MaxBlock : ProcessBlockStep(n, 1, Zeros(n))
    \/ \E chordName \in ChordNames \cup InvalidNames : SetChordStep(chordName)

SpecChord == InitChord /\ [][NextChord]_vars

\* The patterns played on the chords without a degree: digits, the random
\* and the relative steps, a semitone prefix and a repetition, a sustain and
\* a rest, octave prefixes.
ChordStepPatterns ==
    ChordPatterns
    \cup {<<"#", "3", "=", "-">>, <<"1", "_", "+", ".">>, <<"o", "+", "1", "O", "-", "2">>}

\* The objects whose chord is replaced by a chord of an invalid name: the
\* three policies for absent degrees, the chord methods 0 and 2, five
\* patterns.
InitInvalid ==
    \E policy \in {"Off", "Next", "Previous"}, method \in {0, 2}, pat \in ChordStepPatterns :
        InitWith(Configured(CMajor.chord, method, policy, pat, 4, 1, 60, 0))

NextInvalid ==
    \/ \E n \in 0..MaxBlock : \E draws \in Draws(arp, n) : ProcessBlockStep(n, 1, draws)
    \/ \E chordName \in InvalidNames \cup {<<"C", "5">>} : SetChordStep(chordName)

SpecInvalid == InitInvalid /\ [][NextInvalid]_vars

\* C32: for every root name of the note table, in any letter case, and every
\* supported suffix, Chord(name) has the pitch class of the root in slot 0
\* and, in the slots of the third, the fifth and the seventh, the root plus
\* the interval of the quality modulo 12, the other slots absent; "CM7" is
\* [0,4,7,11,-1,-1,-1], "Am7" [9,0,4,7,-1,-1,-1], "C5" [0,-1,7,-1,-1,-1,-1].
ChordDegrees ==
    last.op = "setChord"
        => /\ \A r \in RootNames, q \in Qualities :
                  Trim(last.arg) \in {s \o q.suffix : s \in Spellings(r.letters)}
                      => /\ arp.chord.degrees = DegreesOf(r.pc, q)
                         /\ GetDegree(arp.chord, 0) = r.pc
           /\ last.arg = <<"C", "M", "7">>
                  => arp.chord.degrees = <<0, 4, 7, 11, -1, -1, -1>>
           /\ last.arg = <<"A", "m", "7">>
                  => arp.chord.degrees = <<9, 0, 4, 7, -1, -1, -1>>
           /\ last.arg = <<"C", "5">>
                  => arp.chord.degrees = <<0, -1, 7, -1, -1, -1, -1>>

\* The chord "BBm7" (B flat minor seventh, in upper case) has been set.
ChordDegreesReached ==
    /\ last.op = "setChord"
    /\ last.arg = <<"B", "B", "m", "7">>
    /\ arp.chord.degrees = <<10, 1, 5, 8, -1, -1, -1>>

\* C33: a chord name that is empty or whose root is not in the note table
\* gives a chord whose seven degrees are all absent, and an arpeggiator
\* playing it emits no note-on, for every pattern and every policy for
\* absent degrees.
InvalidNameIsSilent ==
    /\ (last.op = "setChord" /\ last.arg \in InvalidNames)
           => /\ arp.chord.degrees = AbsentDegrees
              /\ \A i \in 0..6 : GetDegree(arp.chord, i) = -1
    /\ (last.op = "processBlock" /\ arp.chord.name \in InvalidNames)
           => NoteOns(out) = <<>>

\* Under "Next", a block has taken a step of the pattern on the chord "Hm7"
\* and holds no note-on.
InvalidNameIsSilentReached ==
    /\ last.op = "processBlock"
    /\ arp.chord.name = <<"H", "m", "7">>
    /\ arp.playNoteOff = "Next"
    /\ \E i \in 1..Len(last.calls) : last.calls[i].found
    /\ NoteOns(out) = <<>>

----------------------------------------------------------------------------
(* The chords built from held notes and from scales. *)

\* The held notes: none, one, a triad out of order, octaves of one pitch
\* class, a note below the lowest one's pitch class, nine pitch classes,
\* a lowest note of pitch class 11, the ends of the MIDI range.
NoteArrays ==
    {<<>>, <<60>>, <<64, 60, 67>>, <<60, 72, 84>>, <<64, 72>>,
     <<71, 60, 62, 64, 65, 67, 69, 70, 61>>,
     <<59, 60, 62, 64, 65, 67, 69, 71>>, <<127, 0>>}

\* The raw notes given to setNotesByArray.
RawNoteArrays == {<<>>, <<64, 60, 67>>}

\* The root of the scales, as a MIDI note (D: the notes of a scale wrap at
\* 12), and the degrees chords are built on.
ScaleRoots == {62}

ScaleDegrees == 0..7

InitBuild ==
    \E method \in {0, 1} :
        InitWith(Configured(CMajor.chord, method, "Next", <<"7", "+", "-", "-">>, 4, 1, 60, 0))

NextBuild ==
    \/ \E n \in 0..MaxBlock : \E draws \in Draws(arp, n) : ProcessBlockStep(n, 1, draws)
    \/ \E chordName \in {<<"C", "M", "7">>, <<"H">>, <<>>} : SetChordStep(chordName)
    \/ \E notes \in NoteArrays : SetDegreesStep(notes)
    \/ \E notes \in RawNoteArrays : SetNotesStep(notes)
    \/ \E root \in ScaleRoots, scaleType \in DOMAIN ScaleIntervals, degree \in ScaleDegrees, chordMode \in BOOLEAN :
           FromScaleStep(root, scaleType, degree, chordMode)

SpecBuild == InitBuild /\ [][NextBuild]_vars

\* C34: however the chord was built (from a name, by setDegreesByArray, by
\* setNotesByArray, by fromScaleAndDegree), its degree array has exactly
\* seven slots and getDegree(i) is a pitch class 0..11 or -1 for i in 0..6,
\* and -1 for every other i.
DegreesArePitchClasses ==
    /\ Len(arp.chord.degrees) = 7
    /\ \A i \in 0..6 : GetDegree(arp.chord, i) \in (0..11) \cup {-1}
    /\ \A i \in {-2, -1, 7, 8} : GetDegree(arp.chord, i) = -1

\* The lowest of the held notes.
LowestOf(notes) ==
    CHOOSE n \in {notes[i] : i \in 1..Len(notes)} : \A i \in 1..Len(notes) : n <= notes[i]

\* The pitch classes of the held notes, each raised by 12 exactly when it is
\* lower than the pitch class of the lowest held note.
RelativeSemitones(notes) ==
    {IF notes[i] % 12 < LowestOf(notes) % 12 THEN (notes[i] % 12) + 12 ELSE notes[i] % 12 :
        i \in 1..Len(notes)}

StackedSteps == <<0, 2, 4, 6, 1, 3, 5>>

\* C36: fromScaleAndDegree(scale, degree, true), for every scale type and
\* every degree, puts into slot k the note of the scale at the index
\* (degree + s_k) mod scaleSize, s = (0, 2, 4, 6, 1, 3, 5), raised by 12 when
\* it is lower than the fundamental of slot 0; it reads no index outside the
\* array of the scale, and the pitch class of every slot is in the scale.
StackedThirds ==
    (last.op = "fromScaleAndDegree" /\ last.arg.chordMode)
        => LET scale == Scale(last.arg.root, last.arg.scaleType)
               scaleSize == Len(scale)
               degree == last.arg.degree % scaleSize
               d == arp.chord.degrees
               at(k) == scale[((last.arg.degree + StackedSteps[k]) % scaleSize) + 1]
           IN  \A k \in 1..7 :
                   /\ d[k] = IF at(k) < d[1] THEN at(k) + 12 ELSE at(k)
                   /\ VoicedIndex(degree, StackedSteps[k]) < scaleSize
                   /\ d[k] % 12 \in {scale[i] : i \in 1..scaleSize}

----------------------------------------------------------------------------
(* The digits. *)

\* Invocation i is a step of one character, a digit from 1 to 9, on a chord
\* made from a name, and the slot (D - 1) mod 7 of the chord is present.
DigitOnPresentSlot(i) ==
    LET c == last.calls[i]
        command == c.before.pattern[c.cmdIndex + 1]
    IN  /\ c.before.chordMethod # 1
        /\ c.before.chord.name # CustomName
        /\ c.consumed = 1
        /\ c.cmdIndex = c.before.pos
        /\ command \in (Digits \ {"0"})
        /\ c.before.chord.degrees[((DigitValue(command) - 1) % 7) + 1] # -1

\* The digit D of such a step selects the degree index (D - 1) mod 7.
DigitSelectsDegree(i) ==
    LET a == last.calls[i].before
        index == (DigitValue(a.pattern[last.calls[i].cmdIndex + 1]) - 1) % 7
    IN  NoteOnsOf(i) = {a.chord.degrees[index + 1] + 12 * a.octave}

\* C37: the digit D from 1 to 9 selects the degree index D - 1, wrapped; the
\* digit '0' is not a note command, and a step whose terminal command is '0'
\* emits no note-on.
ZeroIsNoNote ==
    (last.op = "processBlock" /\ ~hung)
        => \A i \in 1..Len(last.calls) :
               /\ DigitOnPresentSlot(i) => DigitSelectsDegree(i)
               /\ (/\ last.calls[i].cmdIndex # -1
                   /\ last.calls[i].before.pattern[last.calls[i].cmdIndex + 1] = "0")
                      => NoteOnsOf(i) = {}

----------------------------------------------------------------------------
(* The cursor under every operation. *)

\* The raw notes E4, C4, G4 as played.
AsPlayed ==
    [chord |-> SetNotesByArray(ChordFromName("c", "M"), <<64, 60, 67>>),
     method |-> 1, policy |-> "Next"]

\* The objects: digits only, prefixes with their arguments (the offset of a
\* step is not its index), a step that sounds pitch -1, a prefix at the end
\* of the string, a string without a step, the empty string, two steps a
\* quarter note in octave 7, raw notes as played in the octaves 4 and 7.
CursorSetups ==
    {[cfg |-> CMajor, pattern |-> <<"1", "2", "3", "2">>, oct |-> 4, subdivision |-> 0],
     [cfg |-> CMajor, pattern |-> <<"o", "+", "1", "O", "-", "2">>, oct |-> 4, subdivision |-> 0],
     [cfg |-> CMajor, pattern |-> <<"b", "1">>, oct |-> 0, subdivision |-> 0],
     [cfg |-> CMajor, pattern |-> <<"1", "O">>, oct |-> 4, subdivision |-> 0],
     [cfg |-> CMajor, pattern |-> <<"x", "y">>, oct |-> 4, subdivision |-> 0],
     [cfg |-> CMajor, pattern |-> <<>>, oct |-> 4, subdivision |-> 0],
     [cfg |-> CMajor, pattern |-> <<"1", "v", "5", "2", "3">>, oct |-> 7, subdivision |-> 2],
     [cfg |-> AsPlayed, pattern |-> <<"1", "2", "3", "2">>, oct |-> 4, subdivision |-> 0],
     [cfg |-> AsPlayed, pattern |-> <<"1", "2", "3", "2">>, oct |-> 7, subdivision |-> 0]}

\* The host positions handed to reset: before the start of the song, on a
\* step, between two steps, beyond the first traversal of the pattern.
ResetPpqInputs ==
    {RInt(-1), Rat(-3, 2), RInt(0), Rat(1, 2), RInt(1), Rat(5, 2), RInt(7)}

InitCursor ==
    \E s \in CursorSetups :
        InitWith(Configured(s.cfg.chord, s.cfg.method, s.cfg.policy,
                            s.pattern, s.oct, 1, 60, s.subdivision))

NextCursor ==
    \/ \E n \in 0..MaxBlock : ProcessBlockStep(n, 1, Zeros(n))
    \/ ResetStep
    \/ \E ppqPosition \in ResetPpqInputs : ResetAtStep(ppqPosition)
    \/ TurnOffStep
    \/ \E newPattern \in PatternInputs : SetPatternStep(newPattern)
    \/ \E ppqPosition \in {HostPpq(arp, host.pos), RInt(-1)} : SyncStep(ppqPosition)

SpecCursor == InitCursor /\ [][NextCursor]_vars

\* The fields reset() leaves at their initial values.
ResetClears(a) ==
    /\ a.octave = a.baseOctave
    /\ a.globalVelocity = 96
    /\ a.lastPlayedDegreeIndex = 0
    /\ a.samplesUntilNextNote = RInt(0)

\* The step a host position falls in: floor(ppq * divisor) mod numSteps().
StepAtPpq(a, ppqPosition) ==
    RFloor(RMul(ppqPosition, GetNoteDivisor(a.subdivision))) % NumSteps(a.pattern)

\* The note-off reset() owes: one, for the last note-on, if a note sounds.
NoteOffOwed(snd) ==
    IF snd = <<>> THEN <<>>
    ELSE <<NoteOff(snd[Len(snd)][1], snd[Len(snd)][2], 0)>>

\* A reset() taken from the present state: what it returns and leaves.
ResetFromHere ==
    /\ out' = NoteOffOwed(sounding)
    /\ sounding' = <<>>
    /\ ResetClears(arp')
    /\ last'.op = "reset" => arp'.pos = 0
    /\ (last'.op = "resetAt" /\ NumSteps(arp.pattern) > 0
            /\ RLe(RInt(0), last'.ppq))
           => arp'.pos = GetPatternIndexForStep(arp.pattern, StepAtPpq(arp, last'.ppq))

\* C38: reset(), in every reachable state, returns exactly one note-off,
\* with the channel and the pitch of the last note-on, if a note is sounding
\* and nothing otherwise; it leaves no note sounding, the octave at the base
\* octave, the global velocity at 96, lastPlayedDegreeIndex and
\* samplesUntilNextNote at 0, and pos at 0 without a host position, at the
\* character offset of the step floor(ppq * divisor) mod numSteps() with one
\* and numSteps() > 0.
ResetSilencesAndRewinds ==
    [][(last'.op \in {"reset", "resetAt"}) => ResetFromHere]_vars

\* The cursor of the object a is inside its pattern.
CursorInside(a) == a.pattern # <<>> => (a.pos >= 0 /\ a.pos < Len(a.pattern))

\* C39: after every sequence of construction, setPattern, getNext, reset
\* (with or without a host position, negative positions included), turnOff
\* and syncToPlayHead, whenever the pattern is not empty,
\* 0 <= pos < pattern.length().
CursorInPattern ==
    /\ CursorInside(arp)
    /\ \A i \in 1..Len(last.calls) : CursorInside(last.calls[i].after)

\* A getNext invocation has taken the last character of a pattern of several
\* characters and has left the cursor at 0.
CursorInPatternReached ==
    /\ last.op = "processBlock"
    /\ \E i \in 1..Len(last.calls) :
           /\ Len(last.calls[i].before.pattern) > 1
           /\ last.calls[i].before.pos = Len(last.calls[i].before.pattern) - 1
           /\ last.calls[i].after.pos = 0

----------------------------------------------------------------------------
(* The base octave. *)

\* Invocation i is a step on raw notes as played, of one digit from 1 to 9,
\* taken in the octave the object was constructed with.
PlainStepAsPlayed(i) ==
    LET c == last.calls[i]
    IN  /\ c.before.chordMethod = 1
        /\ c.before.chord.rawNotes # <<>>
        /\ c.consumed = 1
        /\ c.cmdIndex = c.before.pos
        /\ c.before.pattern[c.cmdIndex + 1] \in (Digits \ {"0"})
        /\ c.before.octave = c.before.baseOctaveArg

\* The raw note the digit of such a step selects.
RawNoteOf(i) ==
    LET a == last.calls[i].before
    IN  a.chord.rawNotes[((DigitValue(a.pattern[last.calls[i].cmdIndex + 1]) - 1)
                              % Len(a.chord.rawNotes)) + 1]

\* C40: the base octave of an Arpeggiator constructed with the base octave
\* B is B: reset(), turnOff() and setPattern() put the current octave back
\* to B, and with the raw notes as played a step without an octave modifier
\* sounds the raw note unshifted.
BaseOctaveIsConstructed ==
    /\ last.op \in {"reset", "resetAt", "turnOff", "setPattern"}
           => arp.octave = arp.baseOctaveArg
    /\ (last.op = "processBlock" /\ ~hung)
           => \A i \in 1..Len(last.calls) :
                  PlainStepAsPlayed(i) => NoteOnsOf(i) = {RawNoteOf(i)}

====
